---- MODULE Spec2Model ----
(***************************************************************************)
(* apitrace on top of the ReShade API: the capture add-on                  *)
(* (source/api_trace_addon.cpp) serialises graphics calls as tagged        *)
(* events into a trace file, the playback application (source/main.cpp and *)
(* the play_* functions) reads the file back and issues the calls against  *)
(* a live device.                                                          *)
(*                                                                         *)
(* The trace file is modelled byte by byte.  Every value keeps the width   *)
(* it has in the file; handles are kept as their eight bytes.              *)
(***************************************************************************)
EXTENDS Integers, Sequences, FiniteSets, TLC

VARIABLES
  file,                 \* the bytes of the trace file
  s_mutex,              \* recorder: holder of the lock, or NoThread
  thr,                  \* recorder: what each application thread is doing
  order,                \* recorder: the events in lock-acquisition order
  mappings,             \* recorder: the std::vector of open mappings
  index,                \* recorder: device_data::index, the devices constructed
  devices,              \* recorder: the device_data objects constructed so far
  startup,              \* replayer: how far WinMain got before its loop, as a string
  pos,                  \* replayer: number of bytes of the file consumed
  pc,                   \* replayer: where WinMain stands
  api,                  \* replayer: device_api of the playback device
  ndebug,               \* TRUE: built with NDEBUG (assert compiles to nothing)
  shift_wraps,          \* TRUE: the build's x >> n takes n modulo 32
  ret,                  \* replayer: what the last play_frame returned, as a string
  frames,               \* replayer: play_frame invocations so far
  s_samplers, s_resources, s_resource_views,
  s_pipelines, s_pipeline_layouts, s_descriptor_tables,
  calls,                \* every call made on the live device / command list
  live,                 \* live objects created by create_* and not destroyed
  next_live,            \* number of objects the live device has created
  exit_code,            \* replayer: value WinMain returned, -1 while it runs
  hist,                 \* the events applied so far, as decoded
  marks                 \* offsets at which the recorder started or ended an event

recVars == <<s_mutex, thr, order, mappings, index, devices>>
regVars == <<s_samplers, s_resources, s_resource_views,
             s_pipelines, s_pipeline_layouts, s_descriptor_tables>>
devVars == <<calls, live, next_live>>
vars == <<file, recVars, pos, pc, api, ndebug, shift_wraps, ret, frames, exit_code, regVars,
          devVars, hist, marks, startup>>

(***************************************************************************)
(* Bounds of the model.                                                    *)
(***************************************************************************)
MaxEvents == 2          \* operations of the recorded application
MaxFrames == 2          \* iterations of the host frame loop
MaxCallbacks == 2       \* capture callbacks the application threads run in all
MaxCut == 4             \* bytes missing at the end of a truncated trace

(***************************************************************************)
(* Values in the file.                                                     *)
(***************************************************************************)
Byte == 0..255

\* Values of 2^24 and above are not told apart.
Big == 256 * 65536

Pow256(i) == IF i = 0 THEN 1 ELSE IF i = 1 THEN 256 ELSE 65536

\* little-endian bytes of v in a field of w bytes (v < 2^24)
LE(v, w) == [i \in 1..w |-> IF i > 3 THEN 0 ELSE (v \div Pow256(i - 1)) % 256]

\* the value of a little-endian field
Val(bs) ==
  IF \E i \in 4..Len(bs) : bs[i] # 0 THEN Big
  ELSE (IF Len(bs) >= 1 THEN bs[1] ELSE 0)
       + (IF Len(bs) >= 2 THEN 256 * bs[2] ELSE 0)
       + (IF Len(bs) >= 3 THEN 65536 * bs[3] ELSE 0)

U8(v) == LE(v, 1)
U16(v) == LE(v, 2)
U32(v) == LE(v, 4)
U64(v) == LE(v, 8)
Bool(b) == <<IF b THEN 1 ELSE 0>>

\* a 64-bit handle with a small value
Hnd(n) == LE(n, 8)
Null == Hnd(0)

\* n bytes of application memory starting at a buffer whose first byte is fill
Mem(fill, n) == [i \in 1..n |-> (fill + i - 1) % 256]

RECURSIVE Flat(_)
Flat(chunks) ==
  IF chunks = <<>> THEN <<>> ELSE Head(chunks) \o Flat(Tail(chunks))

Min(a, b) == IF a < b THEN a ELSE b
Max(a, b) == IF a > b THEN a ELSE b

(***************************************************************************)
(* Enumerations of the ReShade API the code reads and writes.              *)
(***************************************************************************)
addon_event ==
  [ init_swapchain |-> 6, destroy_swapchain |-> 8,
    init_sampler |-> 11, destroy_sampler |-> 13,
    init_resource |-> 14, destroy_resource |-> 16,
    init_resource_view |-> 17, destroy_resource_view |-> 19,
    map_buffer_region |-> 20, unmap_buffer_region |-> 21,
    map_texture_region |-> 22, unmap_texture_region |-> 23,
    update_buffer_region |-> 24, update_texture_region |-> 25,
    init_pipeline |-> 26, destroy_pipeline |-> 28,
    init_pipeline_layout |-> 29, destroy_pipeline_layout |-> 31,
    copy_descriptor_tables |-> 32, update_descriptor_tables |-> 33,
    init_query_heap |-> 34, destroy_query_heap |-> 36,
    get_query_heap_results |-> 37,
    barrier |-> 38, begin_render_pass |-> 39, end_render_pass |-> 40,
    bind_render_targets_and_depth_stencil |-> 41,
    bind_pipeline |-> 42, bind_pipeline_states |-> 43,
    bind_viewports |-> 44, bind_scissor_rects |-> 45,
    push_constants |-> 46, push_descriptors |-> 47,
    bind_descriptor_tables |-> 48, bind_index_buffer |-> 49,
    bind_vertex_buffers |-> 50, bind_stream_output_buffers |-> 51,
    draw |-> 52, draw_indexed |-> 53, dispatch |-> 54,
    draw_or_dispatch_indirect |-> 55,
    copy_resource |-> 56, copy_buffer_region |-> 57,
    copy_buffer_to_texture |-> 58, copy_texture_region |-> 59,
    copy_texture_to_buffer |-> 60, resolve_texture_region |-> 61,
    clear_depth_stencil_view |-> 62, clear_render_target_view |-> 63,
    clear_unordered_access_view_uint |-> 64,
    clear_unordered_access_view_float |-> 65,
    generate_mipmaps |-> 66,
    begin_query |-> 67, end_query |-> 68, copy_query_heap_results |-> 69,
    reset_command_list |-> 70, close_command_list |-> 71,
    execute_command_list |-> 72, execute_secondary_command_list |-> 73,
    present |-> 74 ]

device_api ==
  [ d3d9 |-> 36864, d3d10 |-> 40960, d3d11 |-> 45056, d3d12 |-> 49152,
    opengl |-> 65536, vulkan |-> 131072 ]

resource_type == [ buffer |-> 1, texture_1d |-> 2, texture_2d |-> 3, texture_3d |-> 4 ]

map_access == [ read_only |-> 1, write_only |-> 2, read_write |-> 3, write_discard |-> 4 ]

pipeline_subobject_type ==
  [ vertex_shader |-> 1, hull_shader |-> 2, domain_shader |-> 3,
    geometry_shader |-> 4, pixel_shader |-> 5, compute_shader |-> 6,
    input_layout |-> 7, stream_output_state |-> 8, blend_state |-> 9,
    rasterizer_state |-> 10, depth_stencil_state |-> 11,
    primitive_topology |-> 12 ]

pipeline_layout_param_type ==
  [ push_constants |-> 1, descriptor_table |-> 0, push_descriptors |-> 2,
    push_descriptors_with_ranges |-> 3,
    descriptor_table_with_static_samplers |-> 4,
    push_descriptors_with_static_samplers |-> 5 ]

\* formats with one and two bytes per texel (r8_unorm, r8g8_unorm)
format == [ r8_unorm |-> 61, r8g8_unorm |-> 49 ]

Tag(name) == U32(addon_event[name])

\* "APITRACE", the value of MAGIC stored little-endian
MAGIC == <<65, 80, 73, 84, 82, 65, 67, 69>>

\* the comparison with the shift left out of the handle: 0x8218 against the
\* low 16 bits
IsDefaultFramebufferLow(h) == h[1] = 24 /\ h[2] = 130

\* (handle >> 40) == 0x8218, GL_FRAMEBUFFER_DEFAULT
IsDefaultFramebuffer(h) == h[6] = 24 /\ h[7] = 130 /\ h[8] = 0

(***************************************************************************)
(* Recorder (api_trace_addon.cpp).  Each on_* operator gives the chunks    *)
(* the callback hands to trace_data_write::write, one chunk per call, in   *)
(* the order of the calls.  The argument e holds the callback's arguments. *)
(***************************************************************************)

\* the members of the descriptor structs that the recorder or the replayer
\* inspect, each at its declared width; the other members are left out
sampler_desc(d) == U32(d.filter)
resource_view_desc(d) == U32(d.format)
blend_desc(d) == U32(d)
resource_desc(d) ==
  IF d.type = resource_type.buffer
  THEN U32(d.type) \o U64(d.size) \o U64(0)
  ELSE U32(d.type) \o U32(d.width) \o U32(d.height)
       \o U16(d.depth_or_layers) \o U16(d.levels) \o U32(d.format)

\* bytes per texel of the formats of the model
BytesPerTexel(f) == IF f = format.r8g8_unorm THEN 2 ELSE 1
format_row_pitch(f, width) == width * BytesPerTexel(f)
format_slice_pitch(f, row_pitch, height) == row_pitch * height

\* x >> n on an unsigned 32-bit value.  For n >= 32 the shift is undefined:
\* the build either takes n modulo 32 or shifts every bit out.
Shr(x, n) ==
  IF n < 32 THEN x \div (2 ^ n)
  ELSE IF shift_wraps THEN x \div (2 ^ (n % 32)) ELSE 0

\* const subresource_box *: null, or left, top, front, right, bottom, back
NoBox == [null |-> TRUE, left |-> 0, top |-> 0, front |-> 0,
          right |-> 0, bottom |-> 0, back |-> 0]
BoxWidth(b) == b.right - b.left
BoxHeight(b) == b.bottom - b.top
BoxDepth(b) == b.back - b.front
subresource_box(b) ==
  U32(b.left) \o U32(b.top) \o U32(b.front) \o U32(b.right) \o U32(b.bottom) \o U32(b.back)

\* a size taken from the pitch of the newest open mapping, where there is one
calc_texture_size_of_mapping(desc, subresource, data, box) ==
  LET level == IF desc.levels # 0 THEN subresource % desc.levels ELSE subresource
      pitch == IF mappings # <<>> THEN mappings[Len(mappings)].row_pitch + 1
               ELSE data.row_pitch
  IN  CASE desc.type = resource_type.texture_1d ->
             format_row_pitch(desc.format,
               IF ~box.null THEN BoxWidth(box) ELSE Max(Shr(desc.width, level), 1))
        [] desc.type = resource_type.texture_2d ->
             format_slice_pitch(desc.format, pitch,
               IF ~box.null THEN BoxHeight(box) ELSE Max(Shr(desc.height, level), 1))
        [] desc.type = resource_type.texture_3d ->
             data.slice_pitch * (IF ~box.null THEN BoxDepth(box) ELSE desc.depth_or_layers)
        [] OTHER -> 0

calc_texture_size(desc, subresource, data, box) ==
  LET level == IF desc.levels # 0 THEN subresource % desc.levels ELSE subresource
  IN  CASE desc.type = resource_type.texture_1d ->
             format_row_pitch(desc.format,
               IF ~box.null THEN BoxWidth(box) ELSE Max(Shr(desc.width, level), 1))
        [] desc.type = resource_type.texture_2d ->
             format_slice_pitch(desc.format, data.row_pitch,
               IF ~box.null THEN BoxHeight(box) ELSE Max(Shr(desc.height, level), 1))
        [] desc.type = resource_type.texture_3d ->
             data.slice_pitch * (IF ~box.null THEN BoxDepth(box) ELSE desc.depth_or_layers)
        [] OTHER -> 0

\* a constructor that writes the backend tag ahead of the magic
device_data_tag_first(graphics_api) == <<U32(graphics_api), MAGIC>>
\* the writes of the constructor of device_data
device_data(graphics_api) == <<MAGIC, U32(graphics_api)>>

\* the file name the constructor builds: n is the value of ++index, m the
\* value std::to_string(index) reads afterwards
TraceName(n, m) == "api_trace_log" \o (IF n > 1 THEN "_" \o ToString(m) ELSE "") \o ".bin"

\* a device_data object: the backend, the file name, whether fopen_s gave a
\* stream, the bytes written to the stream, and the writes made without one
Device(graphics_api, name, open) ==
  [ api |-> graphics_api, name |-> name, open |-> open,
    written |-> IF open THEN Flat(device_data(graphics_api)) ELSE <<>>,
    lost |-> IF open THEN 0 ELSE Len(device_data(graphics_api)) ]

on_init_sampler(e) == <<Tag("init_sampler"), sampler_desc(e.desc), e.h>>
on_destroy_sampler(e) == <<Tag("destroy_sampler"), e.h>>

\* the records of the subresources [from, subresources) of a texture
RECURSIVE InitialDataChunks(_, _, _, _)
InitialDataChunks(desc, init, from, subresources) ==
  IF from >= subresources THEN <<>>
  ELSE LET size == calc_texture_size(desc, from, init, NoBox)
       IN  <<U32(init.row_pitch), U32(init.slice_pitch), U64(size),
             Mem(init.fill + from, size)>>
           \o InitialDataChunks(desc, init, from + 1, subresources)

on_init_resource(e) ==
  <<Tag("init_resource"), resource_desc(e.desc), U32(e.state), e.h>> \o
  IF e.desc.type = resource_type.buffer
  THEN LET subresources == IF ~e.init.null THEN 1 ELSE 0
       IN  <<U32(subresources)>> \o
           (IF subresources # 0 THEN <<Mem(e.init.fill, e.desc.size)>> ELSE <<>>)
  ELSE LET levels == IF e.desc.levels # 0 THEN e.desc.levels ELSE 1
           layers == IF e.desc.type # resource_type.texture_3d
                     THEN e.desc.depth_or_layers ELSE 1
           subresources == IF ~e.init.null THEN levels * layers ELSE 0
       IN  <<U32(subresources)>> \o InitialDataChunks(e.desc, e.init, 0, subresources)
on_destroy_resource(e) == <<Tag("destroy_resource"), e.h>>

on_init_resource_view(e) ==
  <<Tag("init_resource_view"), e.res, U32(e.usage), resource_view_desc(e.desc), e.h>>
on_destroy_resource_view(e) == <<Tag("destroy_resource_view"), e.h>>

RECURSIVE FlatMap(_, _)
FlatMap(Op(_), s) == IF s = <<>> THEN <<>> ELSE Op(Head(s)) \o FlatMap(Op, Tail(s))

\* strlen of the entry point or semantic, 0 for a null pointer
StrLen(str) == IF str.null THEN 0 ELSE Len(str.s)
NullStr == [null |-> TRUE, s |-> <<>>]
Str(s) == [null |-> FALSE, s |-> s]

\* one input_element of an input_layout subobject
ElementChunks(el) ==
  << U32(el.location), U32(StrLen(el.semantic)), SubSeq(el.semantic.s, 1, StrLen(el.semantic)),
     U32(el.semantic_index), U32(el.format), U32(el.buffer_binding), U32(el.offset),
     U32(el.stride), U32(el.instance_step_rate) >>

SubobjectChunks(so) ==
  <<U32(so.type)>> \o
  CASE so.type \in { pipeline_subobject_type.vertex_shader,
                     pipeline_subobject_type.hull_shader,
                     pipeline_subobject_type.domain_shader,
                     pipeline_subobject_type.geometry_shader,
                     pipeline_subobject_type.pixel_shader,
                     pipeline_subobject_type.compute_shader } ->
         << U64(Len(so.code)), so.code, U32(StrLen(so.entry_point)),
            SubSeq(so.entry_point.s, 1, StrLen(so.entry_point)) >>
    [] so.type = pipeline_subobject_type.input_layout ->
         <<U32(Len(so.elements))>> \o FlatMap(ElementChunks, so.elements)
    [] so.type \in { pipeline_subobject_type.blend_state,
                     pipeline_subobject_type.rasterizer_state,
                     pipeline_subobject_type.depth_stencil_state } ->
         <<blend_desc(so.desc)>>
    [] OTHER -> <<>>

on_init_pipeline(e) ==
  <<Tag("init_pipeline"), e.layout, U32(Len(e.subobjects))>>
  \o FlatMap(SubobjectChunks, e.subobjects) \o <<e.h>>
on_destroy_pipeline(e) == <<Tag("destroy_pipeline"), e.h>>

ParamChunks(p) ==
  <<U32(p.type)>> \o
  CASE p.type \in { pipeline_layout_param_type.push_constants,
                    pipeline_layout_param_type.push_descriptors } ->
         <<U32(p.range)>>
    [] OTHER ->
         <<U32(Len(p.ranges))>> \o [k \in 1..Len(p.ranges) |-> U32(p.ranges[k])]

on_init_pipeline_layout(e) ==
  <<Tag("init_pipeline_layout"), U32(Len(e.params))>>
  \o FlatMap(ParamChunks, e.params) \o <<e.h>>
on_destroy_pipeline_layout(e) == <<Tag("destroy_pipeline_layout"), e.h>>

\* render_pass_render_target_desc and render_pass_depth_stencil_desc: the view
\* and the first load operation
render_pass_desc(d) == d.view \o U32(d.load_op)
on_barrier(e) ==
  <<Tag("barrier"), U32(Len(e.resources))>>
  \o FlatMap(LAMBDA r : <<r.resource, U32(r.old_state), U32(r.new_state)>>, e.resources)
on_begin_render_pass(e) ==
  <<Tag("begin_render_pass"), U32(Len(e.rts))>>
  \o [i \in 1..Len(e.rts) |-> render_pass_desc(e.rts[i])]
  \o <<Bool(~e.ds.null)>>
  \o (IF ~e.ds.null THEN <<render_pass_desc(e.ds)>> ELSE <<>>)
on_end_render_pass(e) == <<Tag("end_render_pass")>>
on_bind_pipeline(e) == <<Tag("bind_pipeline"), U32(e.stages), e.h>>
on_draw(e) ==
  <<Tag("draw"), U32(e.vertex_count), U32(e.instance_count),
    U32(e.first_vertex), U32(e.first_instance)>>
on_copy_resource(e) == <<Tag("copy_resource"), e.src, e.dst>>
on_copy_buffer_region(e) ==
  <<Tag("copy_buffer_region"), e.src, U64(e.src_offset), e.dst,
    U64(e.dst_offset), U64(e.size)>>
\* depth is the bit pattern of the float
on_clear_depth_stencil_view(e) ==
  <<Tag("clear_depth_stencil_view"), e.dsv,
    IF ~e.depth.null THEN e.depth.bits ELSE U32(0),
    IF ~e.stencil.null THEN U8(e.stencil.v) ELSE U8(0)>>
on_present(e) == <<Tag("present")>>

\* the size argument that stands for the whole buffer (2^64 - 1, which is
\* not told apart from the other values of 2^24 and above)
UINT64_MAX == Big
\* if (UINT64_MAX == size) size = get_resource_desc(resource).buffer.size;
\* e.desc is what get_resource_desc gives for the resource
MapSize(e) == IF e.size = UINT64_MAX THEN e.desc.size ELSE e.size
on_map_buffer_region(e) ==
  <<Tag("map_buffer_region"), e.res, U64(e.offset), U64(MapSize(e)), U32(e.access)>>
\* an unmap that writes the mapped bytes whatever the access
on_unmap_buffer_region_with_data(e, m) ==
  <<Tag("unmap_buffer_region"), e.res, U64(m.offset), U64(m.size), U32(m.access),
    Mem(m.data, m.size)>>
\* m: the mapping record the callback found for the resource
on_unmap_buffer_region(e, m) ==
  <<Tag("unmap_buffer_region"), e.res, U64(m.offset), U64(m.size), U32(m.access)>>
  \o (IF m.access # map_access.read_only THEN <<Mem(m.data, m.size)>> ELSE <<>>)
on_map_texture_region(e) ==
  <<Tag("map_texture_region"), e.res, U32(e.subresource), Bool(~e.box.null)>>
  \o (IF ~e.box.null THEN <<subresource_box(e.box)>> ELSE <<>>)
  \o <<U32(e.access)>>
\* desc: what get_resource_desc gives for the resource
on_unmap_texture_region(e, m, desc) ==
  <<Tag("unmap_texture_region"), e.res, U32(e.subresource), Bool(m.has_box)>>
  \o (IF m.has_box THEN <<subresource_box(m.box)>> ELSE <<>>)
  \o <<U32(m.access)>>
  \o (IF m.access # map_access.read_only
      THEN LET size == calc_texture_size(desc, e.subresource, m,
                                         IF m.has_box THEN m.box ELSE NoBox)
           IN  <<U64(size), Mem(m.data, size)>>
      ELSE <<>>)

\* e.size is the size after the callback replaced UINT64_MAX
on_update_buffer_region(e) ==
  <<Tag("update_buffer_region"), e.res, U64(e.offset), U64(e.size), Mem(e.data, e.size)>>
\* e.desc: what get_resource_desc gives for the resource
on_update_texture_region(e) ==
  <<Tag("update_texture_region"), e.res, U32(e.subresource), Bool(~e.box.null)>>
  \o (IF ~e.box.null THEN <<subresource_box(e.box)>> ELSE <<>>)
  \o <<U32(e.row_pitch), U32(e.slice_pitch)>>
  \o LET size == calc_texture_size(e.desc, e.subresource, e, e.box)
     IN  <<U64(size), Mem(e.data, size)>>

\* callbacks that write nothing (on_begin_query, on_end_query,
\* on_copy_query_heap_results, on_reset_command_list, ...)
on_begin_query(e) == <<>>
on_end_query(e) == <<>>
on_copy_query_heap_results(e) == <<>>


(***************************************************************************)
(* The mappings vector of the recorder.                                    *)
(***************************************************************************)
\* std::find_if from the front / from the back; 0 stands for end()
FindFirst(maps, P(_)) ==
  IF \E i \in 1..Len(maps) : P(maps[i])
  THEN CHOOSE i \in 1..Len(maps) : P(maps[i]) /\ \A j \in 1..(i - 1) : ~P(maps[j])
  ELSE 0
FindLast(maps, P(_)) ==
  IF \E i \in 1..Len(maps) : P(maps[i])
  THEN CHOOSE i \in 1..Len(maps) : P(maps[i]) /\ \A j \in (i + 1)..Len(maps) : ~P(maps[j])
  ELSE 0
Erase(maps, i) == [j \in 1..(Len(maps) - 1) |-> IF j < i THEN maps[j] ELSE maps[j + 1]]

BufferMapping(maps, e) == LET P(m) == m.resource = e.res IN FindFirst(maps, P)
TextureMapping(maps, e) ==
  LET P(m) == m.resource = e.res /\ m.subresource = e.subresource IN FindLast(maps, P)
TextureMappingFront(maps, e) ==
  LET P(m) == m.resource = e.res /\ m.subresource = e.subresource IN FindFirst(maps, P)

\* the callback finds the mapping its assert expects
Mapped(maps, e) ==
  CASE e.k = "unmap_buffer_region" -> BufferMapping(maps, e) # 0
    [] e.k = "unmap_texture_region" -> TextureMapping(maps, e) # 0
    [] OTHER -> TRUE

(***************************************************************************)
(* Descriptor updates.  An update holds its descriptors as an array of     *)
(* 64-bit words in application memory: one word for a sampler or a view,   *)
(* two for a sampler with a view, three for a buffer range.                *)
(***************************************************************************)
descriptor_type ==
  [ sampler |-> 0, sampler_with_resource_view |-> 1, shader_resource_view |-> 2,
    unordered_access_view |-> 3, constant_buffer |-> 6, shader_storage_buffer |-> 7 ]

\* the words of one descriptor of a type, by the cases of the switch
DescriptorWords(type) ==
  CASE type \in { descriptor_type.sampler, descriptor_type.shader_resource_view,
                  descriptor_type.unordered_access_view,
                  descriptor_type.shader_storage_buffer } -> 1
    [] type = descriptor_type.sampler_with_resource_view -> 2
    [] type = descriptor_type.constant_buffer -> 3
    [] OTHER -> 0

\* the bytes of the n words behind update.descriptors + from; a word past the
\* end of the array is whatever the application's memory holds there
DescriptorMem(update, from, n) ==
  Flat([ j \in 1..n |->
           IF from + j <= Len(update.descriptors) THEN update.descriptors[from + j]
           ELSE update.past ])

\* the body of the loop of on_update_descriptor_tables for updates[i]
WriteUpdate(update, i) ==
  LET w == DescriptorWords(update.type)
  IN  << update.table, U32(update.binding), U32(update.array_offset),
         U32(update.count), U32(update.type) >>
      \o (IF w > 0 THEN <<DescriptorMem(update, i * w, w)>> ELSE <<>>)

on_update_descriptor_tables(e) ==
  << Tag("update_descriptor_tables"), U32(Len(e.updates)) >>
  \o Flat([i \in 1..Len(e.updates) |-> WriteUpdate(e.updates[i], i - 1)])

on_push_descriptors(e) ==
  LET w == DescriptorWords(e.update.type)
  IN  << Tag("push_descriptors"), U32(e.stages), e.layout, U32(e.param_index),
         U32(e.update.binding), U32(e.update.array_offset), U32(e.update.count),
         U32(e.update.type) >>
      \o (IF w > 0
          THEN [k \in 1..e.update.count |-> DescriptorMem(e.update, (k - 1) * w, w)]
          ELSE <<>>)

\* buffer_count and the handle of every back buffer of the swap chain
on_init_swapchain(e) ==
  <<Tag("init_swapchain"), U32(Len(e.buffers))>> \o e.buffers
on_destroy_swapchain(e) ==
  <<Tag("destroy_swapchain"), U32(Len(e.buffers))>> \o e.buffers
on_bind_index_buffer(e) ==
  <<Tag("bind_index_buffer"), e.buffer, U64(e.offset), U32(e.index_size)>>

\* the chunks callback e writes when the vector holds maps
Written(e, maps) ==
  CASE e.k = "init_sampler" -> on_init_sampler(e)
    [] e.k = "destroy_sampler" -> on_destroy_sampler(e)
    [] e.k = "init_swapchain" -> on_init_swapchain(e)
    [] e.k = "destroy_swapchain" -> on_destroy_swapchain(e)
    [] e.k = "bind_index_buffer" -> on_bind_index_buffer(e)
    [] e.k = "init_resource" -> on_init_resource(e)
    [] e.k = "destroy_resource" -> on_destroy_resource(e)
    [] e.k = "init_resource_view" -> on_init_resource_view(e)
    [] e.k = "destroy_resource_view" -> on_destroy_resource_view(e)
    [] e.k = "init_pipeline" -> on_init_pipeline(e)
    [] e.k = "destroy_pipeline" -> on_destroy_pipeline(e)
    [] e.k = "init_pipeline_layout" -> on_init_pipeline_layout(e)
    [] e.k = "destroy_pipeline_layout" -> on_destroy_pipeline_layout(e)
    [] e.k = "map_buffer_region" -> on_map_buffer_region(e)
    [] e.k = "unmap_buffer_region" ->
         on_unmap_buffer_region(e, maps[BufferMapping(maps, e)])
    [] e.k = "map_texture_region" -> on_map_texture_region(e)
    [] e.k = "unmap_texture_region" ->
         on_unmap_texture_region(e, maps[TextureMapping(maps, e)], e.desc)
    [] e.k = "update_buffer_region" -> on_update_buffer_region(e)
    [] e.k = "update_texture_region" -> on_update_texture_region(e)
    [] e.k = "barrier" -> on_barrier(e)
    [] e.k = "begin_render_pass" -> on_begin_render_pass(e)
    [] e.k = "end_render_pass" -> on_end_render_pass(e)
    [] e.k = "bind_pipeline" -> on_bind_pipeline(e)
    [] e.k = "draw" -> on_draw(e)
    [] e.k = "copy_resource" -> on_copy_resource(e)
    [] e.k = "copy_buffer_region" -> on_copy_buffer_region(e)
    [] e.k = "clear_depth_stencil_view" -> on_clear_depth_stencil_view(e)
    [] e.k = "present" -> on_present(e)
    [] e.k = "begin_query" -> on_begin_query(e)
    [] e.k = "end_query" -> on_end_query(e)
    [] e.k = "copy_query_heap_results" -> on_copy_query_heap_results(e)
    [] e.k = "update_descriptor_tables" -> on_update_descriptor_tables(e)
    [] e.k = "push_descriptors" -> on_push_descriptors(e)

\* a release that erases the record whatever its count
ReleaseAlways(maps, i) == Erase(maps, i)
\* if (--mapping_it->ref == 0) mappings.erase(...)
Release(maps, i) ==
  IF maps[i].ref - 1 = 0 THEN Erase(maps, i) ELSE [maps EXCEPT ![i].ref = @ - 1]

\* the vector after callback e
MappingsAfter(e, maps) ==
  CASE e.k = "map_buffer_region" ->
         Append(maps, [ resource |-> e.res, offset |-> e.offset, size |-> MapSize(e),
                        subresource |-> 0, has_box |-> FALSE, box |-> NoBox,
                        access |-> e.access, data |-> e.data,
                        row_pitch |-> 0, slice_pitch |-> 0, ref |-> 1 ])
    [] e.k = "unmap_buffer_region" -> Erase(maps, BufferMapping(maps, e))
    [] e.k = "map_texture_region" ->
         LET i == TextureMappingFront(maps, e)
         IN  IF i # 0 /\ maps[i].data = e.data
             THEN [maps EXCEPT ![i].ref = @ + 1]
             ELSE Append(maps, [ resource |-> e.res, offset |-> 0, size |-> 0,
                                 subresource |-> e.subresource, has_box |-> ~e.box.null,
                                 box |-> e.box, access |-> e.access, data |-> e.data,
                                 row_pitch |-> e.row_pitch,
                                 slice_pitch |-> e.slice_pitch, ref |-> 1 ])
    [] e.k = "unmap_texture_region" ->
         Release(maps, TextureMapping(maps, e))
    [] OTHER -> maps

(***************************************************************************)
(* Reading the file (trace_data.hpp).  A cursor is the read position with  *)
(* two flags: bad, a read returned fewer bytes than asked for; part, such  *)
(* a read returned some bytes, which the assert of read() rejects.         *)
(***************************************************************************)
Step(c, w) ==
  [ p |-> IF c.p + w <= Len(file) THEN c.p + w ELSE Len(file),
    bad |-> c.bad \/ c.p + w > Len(file),
    part |-> c.part \/ (c.p + w > Len(file) /\ c.p < Len(file)) ]

\* the w bytes a read at c leaves in a buffer that held g in every byte
Get(c, w, g) == [i \in 1..w |-> IF c.p + i <= Len(file) THEN file[c.p + i] ELSE g]

\* T read<T>(): the value is uninitialised where the file gave no bytes
Garbage == {0, 1}

\* read(data, size) into a std::vector, whose bytes start as zero
GetBuf(c, w) == Get(c, w, 0)

\* a size or count no allocation of the model can hold
TooBig(n) == n >= Big

C0 == [p |-> pos, bad |-> FALSE, part |-> FALSE]
\* the cursor after play_frame's read of the tag
TagCur == Step(C0, 4)
CurTag == Val(Get(C0, 4, 0))
AtTag(name) == pc = "play" /\ ~TagCur.bad /\ CurTag = addon_event[name]

(***************************************************************************)
(* Handle registry: the std::unordered_map objects of the replayer.        *)
(***************************************************************************)
EmptyMap == [x \in {} |-> Null]
\* a lookup that hands back the origin handle where the map has no entry
AtOrOrigin(m, h) == IF h \in DOMAIN m THEN m[h] ELSE h
\* m[h] as a value (operator[] of a missing key gives the default handle)
At(m, h) == IF h \in DOMAIN m THEN m[h] ELSE Null
\* m after m[h] was evaluated: a missing key is inserted
Touch(m, h) == [x \in DOMAIN m \cup {h} |-> IF x \in DOMAIN m THEN m[x] ELSE Null]
\* m after m[h] = v
Put(m, h, v) == [x \in DOMAIN m \cup {h} |-> IF x = h THEN v ELSE m[x]]

RECURSIVE TouchAll(_, _)
TouchAll(m, hs) == IF hs = <<>> THEN m ELSE TouchAll(Touch(m, Head(hs)), Tail(hs))

(***************************************************************************)
(* The live device.  A create call that succeeds returns a handle no       *)
(* earlier call returned; one that fails leaves zero in the out variable.  *)
(***************************************************************************)
NewLive(n) == <<n % 256, 1, 0, 0, 0, 0, 0, 0>>
BackBuffer(i) == <<i % 256, 2, 0, 0, 0, 0, 0, 0>>
Call(op, args) == [op |-> op, args |-> args]

\* what every step of the replayer leaves alone
Frame == UNCHANGED <<file, recVars, api, ndebug, shift_wraps, frames, marks, startup>>

\* assert fails, or an exception nothing catches: the process ends
Abort ==
  /\ pc' = "abort"
  /\ UNCHANGED <<pos, ret, exit_code, regVars, devVars, hist>>
  /\ Frame

\* the handler of event k returns to the loop of play_frame
Return(k, c, d) ==
  /\ pos' = c.p
  /\ hist' = Append(hist, [k |-> k, at |-> pos, c0 |-> Len(calls), d |-> d, bad |-> c.bad])
  /\ UNCHANGED <<ret, exit_code>>
  /\ Frame

\* a create call whose result goes to a local variable that is stored in the
\* registry when the call succeeded
CreateIntoLocal(ok, stale) == IF ok THEN NewLive(next_live + 1) ELSE stale
\* the entry of the registry after create_...(..., &s_...[handle]): the new
\* object, or null when the call failed
CreateInto(ok, stale) == IF ok THEN NewLive(next_live + 1) ELSE Null

\* a create call failed: assert(false) unless NDEBUG
AfterCreate(ok) == pc' = IF ~ok /\ ~ndebug THEN "abort" ELSE "play"

play_init_sampler ==
  /\ AtTag("init_sampler")
  /\ \E g \in Garbage, ok \in BOOLEAN :
       LET desc == Get(TagCur, 4, g)
           c1 == Step(TagCur, 4)
           handle == Get(c1, 8, g)
           c2 == Step(c1, 8)
           new == IF ok THEN NewLive(next_live + 1) ELSE Null
       IN  IF ~ndebug /\ c2.part THEN Abort
           ELSE /\ s_samplers' = Put(s_samplers, handle, new)
                /\ calls' = Append(calls, Call("create_sampler", <<Val(desc), ok, new>>))
                /\ live' = IF ok THEN live \cup {new} ELSE live
                /\ next_live' = IF ok THEN next_live + 1 ELSE next_live
                /\ AfterCreate(ok)
                /\ Return("init_sampler", c2, [h |-> handle, desc |-> Val(desc), ok |-> ok, new |-> new])
                /\ UNCHANGED <<s_resources, s_resource_views, s_pipelines,
                               s_pipeline_layouts, s_descriptor_tables>>

play_destroy_sampler ==
  /\ AtTag("destroy_sampler")
  /\ \E g \in Garbage :
       LET handle == Get(TagCur, 8, g)
           c1 == Step(TagCur, 8)
           old == At(s_samplers, handle)
       IN  IF ~ndebug /\ c1.part THEN Abort
           ELSE /\ s_samplers' = Put(s_samplers, handle, Null)
                /\ calls' = Append(calls, Call("destroy_sampler", <<old>>))
                /\ live' = live \ {old}
                /\ pc' = "play"
                /\ Return("destroy_sampler", c1, [h |-> handle, old |-> old])
                /\ UNCHANGED <<next_live, s_resources, s_resource_views, s_pipelines,
                               s_pipeline_layouts, s_descriptor_tables>>

\* resource_desc as laid out by the operator resource_desc above
ReadResourceDesc(bs) ==
  [ type |-> Val(SubSeq(bs, 1, 4)),
    size |-> Val(SubSeq(bs, 5, 12)),
    width |-> Val(SubSeq(bs, 5, 8)),
    height |-> Val(SubSeq(bs, 9, 12)),
    depth_or_layers |-> Val(SubSeq(bs, 13, 14)),
    levels |-> Val(SubSeq(bs, 15, 16)),
    format |-> Val(SubSeq(bs, 17, 20)) ]

\* the loop body of play_init_resource, n times: row pitch, slice pitch,
\* size, data.  big: a size no vector can take
RECURSIVE ReadSubresources(_, _, _)
ReadSubresources(c, n, g) ==
  IF n = 0 THEN [c |-> c, subs |-> <<>>, big |-> FALSE]
  ELSE LET row_pitch == Val(Get(c, 4, g))
           c1 == Step(c, 4)
           slice_pitch == Val(Get(c1, 4, g))
           c2 == Step(c1, 4)
           size == Val(Get(c2, 8, g))
           c3 == Step(c2, 8)
       IN  IF TooBig(size) THEN [c |-> c3, subs |-> <<>>, big |-> TRUE]
           ELSE LET rest == ReadSubresources(Step(c3, size), n - 1, g)
                IN  [ c |-> rest.c,
                      subs |-> <<[row_pitch |-> row_pitch, slice_pitch |-> slice_pitch,
                                  data |-> GetBuf(c3, size)]>> \o rest.subs,
                      big |-> rest.big ]

\* everything play_init_resource reads, up to the check of the handle
ReadInitResource(g) ==
  LET raw == ReadResourceDesc(Get(TagCur, 20, g))
      c1 == Step(TagCur, 20)
      initial_state == Val(Get(c1, 4, g))
      c2 == Step(c1, 4)
      handle == Get(c2, 8, g)
      c3 == Step(c2, 8)
      subresources == Val(Get(c3, 4, g))
      c4 == Step(c3, 4)
  IN  IF TooBig(subresources)
      THEN [c |-> c4, big |-> TRUE, desc |-> raw, state |-> initial_state,
            h |-> handle, n |-> subresources, subs |-> <<>>]
      ELSE IF raw.type = resource_type.buffer
      THEN IF subresources # 0
           THEN [ c |-> Step(c4, raw.size), big |-> TooBig(raw.size), desc |-> raw,
                  state |-> initial_state, h |-> handle, n |-> subresources,
                  subs |-> IF TooBig(raw.size) THEN <<>>
                           ELSE <<[row_pitch |-> 0, slice_pitch |-> 0,
                                   data |-> GetBuf(c4, raw.size)]>> ]
           ELSE [c |-> c4, big |-> FALSE, desc |-> raw, state |-> initial_state,
                 h |-> handle, n |-> subresources, subs |-> <<>>]
      ELSE LET levels == IF api = device_api.opengl /\ raw.levels = 0 THEN 1 ELSE raw.levels
               layers == IF raw.type # resource_type.texture_3d
                         THEN raw.depth_or_layers ELSE 1
               r == ReadSubresources(c4, Min(subresources, layers * levels), g)
           IN  [ c |-> r.c, big |-> r.big, desc |-> [raw EXCEPT !.levels = levels],
                 state |-> initial_state, h |-> handle, n |-> subresources,
                 subs |-> r.subs ]

play_init_resource ==
  /\ AtTag("init_resource")
  /\ \E g \in Garbage, ok \in BOOLEAN :
       LET r == ReadInitResource(g)
           stale == At(s_resources, r.h)
           new == CreateInto(ok, stale)
       IN  IF (~ndebug /\ r.c.part) \/ r.big THEN Abort
           ELSE IF api = device_api.opengl /\ IsDefaultFramebuffer(r.h)
           THEN /\ s_resources' = Put(s_resources, r.h, r.h)
                /\ pc' = "play"
                /\ Return("init_resource", r.c, [h |-> r.h, ok |-> TRUE, new |-> r.h,
                                                 created |-> FALSE, stale |-> stale])
                /\ UNCHANGED <<devVars, s_samplers, s_resource_views, s_pipelines,
                               s_pipeline_layouts, s_descriptor_tables>>
           ELSE /\ s_resources' = Put(s_resources, r.h, new)
                /\ calls' = calls
                     \o (IF r.h \in DOMAIN s_resources
                         THEN <<Call("destroy_resource", <<stale>>)>> ELSE <<>>)
                     \o <<Call("create_resource",
                               <<r.desc.type, r.subs, r.state, ok, new>>)>>
                /\ live' = IF ok THEN (live \ {stale}) \cup {new}
                           ELSE IF r.h \in DOMAIN s_resources THEN live \ {stale} ELSE live
                /\ next_live' = IF ok THEN next_live + 1 ELSE next_live
                /\ AfterCreate(ok)
                /\ Return("init_resource", r.c, [h |-> r.h, ok |-> ok, new |-> new,
                                                 created |-> TRUE, stale |-> stale])
                /\ UNCHANGED <<s_samplers, s_resource_views, s_pipelines,
                               s_pipeline_layouts, s_descriptor_tables>>

\* a destroy handler that clears the entry and leaves the live object alone
play_destroy_resource_forget ==
  /\ AtTag("destroy_resource")
  /\ \E g \in Garbage :
       LET handle == Get(TagCur, 8, g)
           c1 == Step(TagCur, 8)
           old == At(s_resources, handle)
       IN  IF ~ndebug /\ c1.part THEN Abort
           ELSE IF api = device_api.opengl /\ IsDefaultFramebuffer(handle)
           THEN /\ pc' = "play"
                /\ Return("destroy_resource", c1, [h |-> handle, old |-> old])
                /\ UNCHANGED <<regVars, devVars>>
           ELSE /\ s_resources' = Put(s_resources, handle, Null)
                /\ calls' = calls
                /\ live' = live \ {old}
                /\ pc' = "play"
                /\ Return("destroy_resource", c1, [h |-> handle, old |-> old])
                /\ UNCHANGED <<next_live, s_samplers, s_resource_views, s_pipelines,
                               s_pipeline_layouts, s_descriptor_tables>>

play_destroy_resource ==
  /\ AtTag("destroy_resource")
  /\ \E g \in Garbage :
       LET handle == Get(TagCur, 8, g)
           c1 == Step(TagCur, 8)
           old == At(s_resources, handle)
       IN  IF ~ndebug /\ c1.part THEN Abort
           ELSE IF api = device_api.opengl /\ IsDefaultFramebuffer(handle)
           THEN /\ pc' = "play"
                /\ Return("destroy_resource", c1, [h |-> handle, old |-> old])
                /\ UNCHANGED <<regVars, devVars>>
           ELSE /\ s_resources' = Put(s_resources, handle, Null)
                /\ calls' = Append(calls, Call("destroy_resource", <<old>>))
                /\ live' = live \ {old}
                /\ pc' = "play"
                /\ Return("destroy_resource", c1, [h |-> handle, old |-> old])
                /\ UNCHANGED <<next_live, s_samplers, s_resource_views, s_pipelines,
                               s_pipeline_layouts, s_descriptor_tables>>

play_init_resource_view ==
  /\ AtTag("init_resource_view")
  /\ \E g \in Garbage, ok \in BOOLEAN :
       LET resource_handle == Get(TagCur, 8, g)
           c1 == Step(TagCur, 8)
           usage_type == Val(Get(c1, 4, g))
           c2 == Step(c1, 4)
           desc == Val(Get(c2, 4, g))
           c3 == Step(c2, 4)
           handle == Get(c3, 8, g)
           c4 == Step(c3, 8)
           stale == At(s_resource_views, handle)
           new == CreateInto(ok, stale)
       IN  IF ~ndebug /\ c4.part THEN Abort
           ELSE IF api = device_api.opengl /\ IsDefaultFramebuffer(handle)
           THEN /\ s_resource_views' = Put(s_resource_views, handle, handle)
                /\ pc' = "play"
                /\ Return("init_resource_view", c4,
                          [h |-> handle, ok |-> TRUE, new |-> handle,
                           created |-> FALSE, stale |-> stale,
                           res |-> resource_handle])
                /\ UNCHANGED <<devVars, s_samplers, s_resources, s_pipelines,
                               s_pipeline_layouts, s_descriptor_tables>>
           ELSE /\ s_resource_views' = Put(s_resource_views, handle, new)
                /\ s_resources' = Touch(s_resources, resource_handle)
                /\ calls' = calls
                     \o (IF handle \in DOMAIN s_resource_views
                         THEN <<Call("destroy_resource_view", <<stale>>)>> ELSE <<>>)
                     \o <<Call("create_resource_view",
                               <<At(s_resources, resource_handle), usage_type, desc,
                                 ok, new>>)>>
                /\ live' = IF ok THEN (live \ {stale}) \cup {new} ELSE live \ {stale}
                /\ next_live' = IF ok THEN next_live + 1 ELSE next_live
                /\ AfterCreate(ok)
                /\ Return("init_resource_view", c4,
                          [h |-> handle, ok |-> ok, new |-> new,
                           created |-> TRUE, stale |-> stale,
                           res |-> resource_handle])
                /\ UNCHANGED <<s_samplers, s_pipelines, s_pipeline_layouts,
                               s_descriptor_tables>>

play_destroy_resource_view ==
  /\ AtTag("destroy_resource_view")
  /\ \E g \in Garbage :
       LET handle == Get(TagCur, 8, g)
           c1 == Step(TagCur, 8)
           old == At(s_resource_views, handle)
       IN  IF ~ndebug /\ c1.part THEN Abort
           ELSE /\ s_resource_views' = Put(s_resource_views, handle, Null)
                /\ calls' = Append(calls, Call("destroy_resource_view", <<old>>))
                /\ live' = live \ {old}
                /\ pc' = "play"
                /\ Return("destroy_resource_view", c1, [h |-> handle, old |-> old])
                /\ UNCHANGED <<next_live, s_samplers, s_resources, s_pipelines,
                               s_pipeline_layouts, s_descriptor_tables>>

IsShader(type) ==
  type \in { pipeline_subobject_type.vertex_shader, pipeline_subobject_type.hull_shader,
             pipeline_subobject_type.domain_shader, pipeline_subobject_type.geometry_shader,
             pipeline_subobject_type.pixel_shader, pipeline_subobject_type.compute_shader }
IsStateBlock(type) ==
  type \in { pipeline_subobject_type.blend_state, pipeline_subobject_type.rasterizer_state,
             pipeline_subobject_type.depth_stencil_state }

\* count fields of w bytes each
RECURSIVE ReadArray(_, _, _, _)
ReadArray(c, count, w, g) ==
  IF count = 0 THEN [c |-> c, vals |-> <<>>]
  ELSE LET rest == ReadArray(Step(c, w), count - 1, w, g)
       IN  [c |-> rest.c, vals |-> <<Get(c, w, g)>> \o rest.vals]

\* a string that is skipped in the file and handed on as a null pointer
ReadStrNull(c, length) == NullStr
\* a string read into a zeroed vector of length + 1; the pointer handed on is
\* null when the length is 0
ReadStr(c, length) == [null |-> length = 0, s |-> GetBuf(c, length)]

\* the loop over the count elements of an input_layout subobject
RECURSIVE ReadElements(_, _, _)
ReadElements(c, count, g) ==
  IF count = 0 THEN [c |-> c, elements |-> <<>>, big |-> FALSE]
  ELSE LET location == Val(Get(c, 4, g))
           c1 == Step(c, 4)
           semantic_length == Val(Get(c1, 4, g))
           c2 == Step(c1, 4)
       IN  IF TooBig(semantic_length)
           THEN [c |-> c2, elements |-> <<>>, big |-> TRUE]
           ELSE LET semantic == ReadStr(c2, semantic_length)
                    c3 == Step(c2, semantic_length)
                    a == ReadArray(c3, 6, 4, g)
                    rest == ReadElements(a.c, count - 1, g)
                IN  [rest EXCEPT !.elements =
                       << [ location |-> location, semantic |-> semantic,
                            semantic_index |-> Val(a.vals[1]), format |-> Val(a.vals[2]),
                            buffer_binding |-> Val(a.vals[3]), offset |-> Val(a.vals[4]),
                            stride |-> Val(a.vals[5]),
                            instance_step_rate |-> Val(a.vals[6]) ] >> \o @]

\* the loop of play_init_pipeline over n subobjects.  store: the local
\* objects the subobjects point to, one per subobject type
RECURSIVE ReadSubobjects(_, _, _, _)
ReadSubobjects(c, n, g, store) ==
  IF n = 0 THEN [c |-> c, types |-> <<>>, store |-> store, big |-> FALSE]
  ELSE LET type == Val(Get(c, 4, g))
           c1 == Step(c, 4)
       IN  IF IsShader(type)
           THEN LET code_size == Val(Get(c1, 8, g))
                    c2 == Step(c1, 8)
                IN  IF TooBig(code_size)
                    THEN [c |-> c2, types |-> <<>>, store |-> store, big |-> TRUE]
                    ELSE
                    LET code == GetBuf(c2, code_size)
                        c3 == Step(c2, code_size)
                        entry_point_length == Val(Get(c3, 4, g))
                        c4 == Step(c3, 4)
                    IN  IF TooBig(entry_point_length)
                        THEN [c |-> c4, types |-> <<>>, store |-> store, big |-> TRUE]
                        ELSE
                        LET entry_point == ReadStr(c4, entry_point_length)
                            c5 == Step(c4, entry_point_length)
                            rest == ReadSubobjects(c5, n - 1, g,
                                      Put(store, type, [code |-> code,
                                                        entry_point |-> entry_point]))
                        IN  [rest EXCEPT !.types = <<type>> \o @]
           ELSE IF type = pipeline_subobject_type.input_layout
           THEN LET count == Val(Get(c1, 4, g))
                    c2 == Step(c1, 4)
                    els == IF TooBig(count)
                           THEN [c |-> c2, elements |-> <<>>, big |-> TRUE]
                           ELSE ReadElements(c2, count, g)
                IN  IF els.big
                    THEN [c |-> els.c, types |-> <<>>, store |-> store, big |-> TRUE]
                    ELSE LET rest == ReadSubobjects(els.c, n - 1, g,
                                       Put(store, type, [elements |-> els.elements]))
                         IN  [rest EXCEPT !.types = <<type>> \o @]
           ELSE IF IsStateBlock(type)
           THEN LET rest == ReadSubobjects(Step(c1, 4), n - 1, g,
                              Put(store, type, [desc |-> Val(Get(c1, 4, g))]))
                IN  [rest EXCEPT !.types = <<type>> \o @]
           ELSE LET rest == ReadSubobjects(c1, n - 1, g, store)
                IN  [rest EXCEPT !.types = <<type>> \o @]

\* the subobject array handed to create_pipeline: each entry points into store
Subobjects(types, store) ==
  [i \in 1..Len(types) |->
     [ type |-> types[i],
       data |-> IF types[i] \in DOMAIN store THEN store[types[i]] ELSE [none |-> TRUE] ]]

play_init_pipeline ==
  /\ AtTag("init_pipeline")
  /\ \E g \in Garbage, ok \in BOOLEAN :
       LET layout == Get(TagCur, 8, g)
           c1 == Step(TagCur, 8)
           subobject_count == Val(Get(c1, 4, g))
           c2 == Step(c1, 4)
           r == IF TooBig(subobject_count)
                THEN [c |-> c2, types |-> <<>>, store |-> <<>>, big |-> TRUE]
                ELSE ReadSubobjects(c2, subobject_count, g, [x \in {} |-> 0])
           handle == Get(r.c, 8, g)
           c3 == Step(r.c, 8)
           stale == At(s_pipelines, handle)
           new == CreateInto(ok, stale)
       IN  IF (~ndebug /\ c3.part) \/ r.big THEN Abort
           ELSE /\ s_pipelines' = Put(s_pipelines, handle, new)
                /\ s_pipeline_layouts' = Touch(s_pipeline_layouts, layout)
                /\ calls' = calls
                     \o (IF handle \in DOMAIN s_pipelines
                         THEN <<Call("destroy_pipeline", <<stale>>)>> ELSE <<>>)
                     \o <<Call("create_pipeline",
                               <<At(s_pipeline_layouts, layout), subobject_count,
                                 Subobjects(r.types, r.store), ok, new>>)>>
                /\ live' = IF ok THEN (live \ {stale}) \cup {new} ELSE live \ {stale}
                /\ next_live' = IF ok THEN next_live + 1 ELSE next_live
                /\ AfterCreate(ok)
                /\ Return("init_pipeline", c3,
                          [h |-> handle, ok |-> ok, new |-> new,
                           created |-> TRUE, stale |-> stale,
                           layout |-> layout])
                /\ UNCHANGED <<s_samplers, s_resources, s_resource_views,
                               s_descriptor_tables>>

\* a destroy handler that leaves the entry of the registry as it was
play_destroy_pipeline_keep ==
  /\ AtTag("destroy_pipeline")
  /\ \E g \in Garbage :
       LET handle == Get(TagCur, 8, g)
           c1 == Step(TagCur, 8)
           old == At(s_pipelines, handle)
       IN  /\ calls' = Append(calls, Call("destroy_pipeline", <<old>>))
           /\ live' = live \ {old}
           /\ pc' = "play"
           /\ Return("destroy_pipeline", c1, [h |-> handle, old |-> old])
           /\ UNCHANGED <<regVars, next_live>>

play_destroy_pipeline ==
  /\ AtTag("destroy_pipeline")
  /\ \E g \in Garbage :
       LET handle == Get(TagCur, 8, g)
           c1 == Step(TagCur, 8)
           old == At(s_pipelines, handle)
       IN  IF ~ndebug /\ c1.part THEN Abort
           ELSE /\ s_pipelines' = Put(s_pipelines, handle, Null)
                /\ calls' = Append(calls, Call("destroy_pipeline", <<old>>))
                /\ live' = live \ {old}
                /\ pc' = "play"
                /\ Return("destroy_pipeline", c1, [h |-> handle, old |-> old])
                /\ UNCHANGED <<next_live, s_samplers, s_resources, s_resource_views,
                               s_pipeline_layouts, s_descriptor_tables>>

\* the loop of play_init_pipeline_layout over n parameters
RECURSIVE ReadParams(_, _, _)
ReadParams(c, n, g) ==
  IF n = 0 THEN [c |-> c, params |-> <<>>, big |-> FALSE]
  ELSE LET type == Val(Get(c, 4, g))
           c1 == Step(c, 4)
       IN  IF type \in { pipeline_layout_param_type.push_constants,
                         pipeline_layout_param_type.push_descriptors }
           THEN LET rest == ReadParams(Step(c1, 4), n - 1, g)
                IN  [rest EXCEPT !.params =
                       <<[type |-> type, range |-> Val(Get(c1, 4, g))]>> \o @]
           ELSE IF type \in { pipeline_layout_param_type.descriptor_table,
                              pipeline_layout_param_type.push_descriptors_with_ranges,
                              pipeline_layout_param_type.descriptor_table_with_static_samplers,
                              pipeline_layout_param_type.push_descriptors_with_static_samplers }
           THEN LET count == Val(Get(c1, 4, g))
                    c2 == Step(c1, 4)
                IN  IF TooBig(count) THEN [c |-> c2, params |-> <<>>, big |-> TRUE]
                    ELSE LET a == ReadArray(c2, count, 4, g)
                             rest == ReadParams(a.c, n - 1, g)
                         IN  [rest EXCEPT !.params =
                                <<[type |-> type,
                                   ranges |-> [k \in 1..count |-> Val(a.vals[k])]]>> \o @]
           ELSE LET rest == ReadParams(c1, n - 1, g)
                IN  [rest EXCEPT !.params = <<[type |-> type]>> \o @]

play_init_pipeline_layout ==
  /\ AtTag("init_pipeline_layout")
  /\ \E g \in Garbage, ok \in BOOLEAN :
       LET param_count == Val(Get(TagCur, 4, g))
           c1 == Step(TagCur, 4)
           r == IF TooBig(param_count) THEN [c |-> c1, params |-> <<>>, big |-> TRUE]
                ELSE ReadParams(c1, param_count, g)
           handle == Get(r.c, 8, g)
           c2 == Step(r.c, 8)
           stale == At(s_pipeline_layouts, handle)
           new == CreateInto(ok, stale)
       IN  IF (~ndebug /\ c2.part) \/ r.big THEN Abort
           ELSE /\ s_pipeline_layouts' = Put(s_pipeline_layouts, handle, new)
                /\ calls' = Append(calls, Call("create_pipeline_layout",
                                               <<param_count, r.params, ok, new>>))
                /\ live' = IF ok THEN live \cup {new} ELSE live
                /\ next_live' = IF ok THEN next_live + 1 ELSE next_live
                /\ AfterCreate(ok)
                /\ Return("init_pipeline_layout", c2,
                          [h |-> handle, ok |-> ok, new |-> new,
                           created |-> TRUE, stale |-> stale])
                /\ UNCHANGED <<s_samplers, s_resources, s_resource_views, s_pipelines,
                               s_descriptor_tables>>

play_destroy_pipeline_layout ==
  /\ AtTag("destroy_pipeline_layout")
  /\ \E g \in Garbage :
       LET handle == Get(TagCur, 8, g)
           c1 == Step(TagCur, 8)
           old == At(s_pipeline_layouts, handle)
       IN  IF ~ndebug /\ c1.part THEN Abort
           ELSE /\ s_pipeline_layouts' = Put(s_pipeline_layouts, handle, Null)
                /\ calls' = Append(calls, Call("destroy_pipeline_layout", <<old>>))
                /\ live' = live \ {old}
                /\ pc' = "play"
                /\ Return("destroy_pipeline_layout", c1, [h |-> handle, old |-> old])
                /\ UNCHANGED <<next_live, s_samplers, s_resources, s_resource_views,
                               s_pipelines, s_descriptor_tables>>

(***************************************************************************)
(* Command-list events.                                                    *)
(***************************************************************************)
\* a byte read as bool
AsBool(bs) == bs[1] # 0

\* the loop of play_barrier, n times
RECURSIVE ReadBarriers(_, _, _)
ReadBarriers(c, n, g) ==
  IF n = 0 THEN [c |-> c, hs |-> <<>>, old |-> <<>>, new |-> <<>>]
  ELSE LET handle == Get(c, 8, g)
           c1 == Step(c, 8)
           old_state == Val(Get(c1, 4, g))
           c2 == Step(c1, 4)
           new_state == Val(Get(c2, 4, g))
           rest == ReadBarriers(Step(c2, 4), n - 1, g)
       IN  [ c |-> rest.c, hs |-> <<handle>> \o rest.hs,
             old |-> <<old_state>> \o rest.old, new |-> <<new_state>> \o rest.new ]

play_barrier ==
  /\ AtTag("barrier")
  /\ \E g \in Garbage :
       LET count == Val(Get(TagCur, 4, g))
           c1 == Step(TagCur, 4)
           r == IF TooBig(count) THEN [c |-> c1, hs |-> <<>>, old |-> <<>>, new |-> <<>>]
                ELSE ReadBarriers(c1, count, g)
       IN  IF (~ndebug /\ r.c.part) \/ TooBig(count) THEN Abort
           ELSE /\ s_resources' = TouchAll(s_resources, r.hs)
                /\ calls' = Append(calls, Call("barrier",
                     <<count,
                       [i \in 1..count |-> At(s_resources, r.hs[i])],
                       r.old, r.new>>))
                /\ pc' = "play"
                /\ Return("barrier", r.c, [hs |-> r.hs])
                /\ UNCHANGED <<live, next_live, s_samplers, s_resource_views,
                               s_pipelines, s_pipeline_layouts, s_descriptor_tables>>

\* the loop of play_begin_render_pass, n times
RECURSIVE ReadTargets(_, _, _)
ReadTargets(c, n, g) ==
  IF n = 0 THEN [c |-> c, rts |-> <<>>]
  ELSE LET bs == Get(c, 12, g)
           rest == ReadTargets(Step(c, 12), n - 1, g)
       IN  [ c |-> rest.c,
             rts |-> <<[view |-> SubSeq(bs, 1, 8), load_op |-> Val(SubSeq(bs, 9, 12))]>>
                     \o rest.rts ]

play_begin_render_pass ==
  /\ AtTag("begin_render_pass")
  /\ \E g \in Garbage :
       LET count == Val(Get(TagCur, 4, g))
           c1 == Step(TagCur, 4)
           r == IF TooBig(count) THEN [c |-> c1, rts |-> <<>>] ELSE ReadTargets(c1, count, g)
           has_ds == AsBool(Get(r.c, 1, g))
           c2 == Step(r.c, 1)
           bs == Get(c2, 12, g)
           ds == [view |-> SubSeq(bs, 1, 8), load_op |-> Val(SubSeq(bs, 9, 12))]
           c3 == IF has_ds THEN Step(c2, 12) ELSE c2
           views == [i \in 1..Len(r.rts) |-> r.rts[i].view]
                    \o (IF has_ds THEN <<ds.view>> ELSE <<>>)
       IN  IF (~ndebug /\ c3.part) \/ TooBig(count) THEN Abort
           ELSE /\ s_resource_views' = TouchAll(s_resource_views, views)
                /\ calls' = Append(calls, Call("begin_render_pass",
                     <<count,
                       [i \in 1..Len(r.rts) |->
                          [r.rts[i] EXCEPT !.view = At(s_resource_views, @)]],
                       IF has_ds
                       THEN [null |-> FALSE, view |-> At(s_resource_views, ds.view),
                             load_op |-> ds.load_op]
                       ELSE [null |-> TRUE, view |-> Null, load_op |-> 0]>>))
                /\ pc' = "play"
                /\ Return("begin_render_pass", c3, [hs |-> views])
                /\ UNCHANGED <<live, next_live, s_samplers, s_resources, s_pipelines,
                               s_pipeline_layouts, s_descriptor_tables>>

play_end_render_pass ==
  /\ AtTag("end_render_pass")
  /\ calls' = Append(calls, Call("end_render_pass", <<>>))
  /\ pc' = "play"
  /\ Return("end_render_pass", TagCur, [hs |-> <<>>])
  /\ UNCHANGED <<regVars, live, next_live>>

play_bind_pipeline ==
  /\ AtTag("bind_pipeline")
  /\ \E g \in Garbage :
       LET stages == Val(Get(TagCur, 4, g))
           c1 == Step(TagCur, 4)
           handle == Get(c1, 8, g)
           c2 == Step(c1, 8)
       IN  IF ~ndebug /\ c2.part THEN Abort
           ELSE /\ s_pipelines' = Touch(s_pipelines, handle)
                /\ calls' = Append(calls, Call("bind_pipeline",
                                               <<stages, At(s_pipelines, handle)>>))
                /\ pc' = "play"
                /\ Return("bind_pipeline", c2, [hs |-> <<handle>>, stages |-> stages])
                /\ UNCHANGED <<live, next_live, s_samplers, s_resources,
                               s_resource_views, s_pipeline_layouts, s_descriptor_tables>>

(***************************************************************************)
(* The swap chain of the trace.                                            *)
(***************************************************************************)
\* runtime->get_back_buffer_count() of the playback window
BackBufferCount == 2

\* the loop of play_init_swapchain for the buffers i .. n - 1: each handle
\* read and the back buffer of the playback swap chain it is mapped to
RECURSIVE ReadBackBuffers(_, _, _, _)
ReadBackBuffers(c, i, n, g) ==
  IF i >= n THEN [c |-> c, hs |-> <<>>, buffers |-> <<>>]
  ELSE LET handle == Get(c, 8, g)
           rest == ReadBackBuffers(Step(c, 8), i + 1, n, g)
       IN  [ c |-> rest.c, hs |-> <<handle>> \o rest.hs,
             buffers |-> <<BackBuffer(IF i < BackBufferCount THEN i ELSE 0)>>
                         \o rest.buffers ]

RECURSIVE PutAll(_, _, _)
PutAll(m, hs, vs) ==
  IF hs = <<>> THEN m ELSE PutAll(Put(m, Head(hs), Head(vs)), Tail(hs), Tail(vs))

play_init_swapchain ==
  /\ AtTag("init_swapchain")
  /\ \E g \in Garbage :
       LET buffer_count == Val(Get(TagCur, 4, g))
           c1 == Step(TagCur, 4)
           r == IF TooBig(buffer_count) THEN [c |-> c1, hs |-> <<>>, buffers |-> <<>>]
                ELSE ReadBackBuffers(c1, 0, buffer_count, g)
       IN  IF ~ndebug /\ r.c.part THEN Abort
           ELSE /\ ~TooBig(buffer_count)
                /\ s_resources' = PutAll(s_resources, r.hs, r.buffers)
                /\ s_resource_views' =
                     IF api \in {device_api.d3d9, device_api.opengl}
                     THEN PutAll(s_resource_views, r.hs, r.buffers)
                     ELSE s_resource_views
                /\ pc' = "play"
                /\ Return("init_swapchain", r.c, [hs |-> r.hs])
                /\ UNCHANGED <<calls, live, next_live, s_samplers, s_pipelines,
                               s_pipeline_layouts, s_descriptor_tables>>

\* every handle of the event loses its back buffer; nothing is destroyed
play_destroy_swapchain ==
  /\ AtTag("destroy_swapchain")
  /\ \E g \in Garbage :
       LET buffer_count == Val(Get(TagCur, 4, g))
           c1 == Step(TagCur, 4)
           r == IF TooBig(buffer_count) THEN [c |-> c1, hs |-> <<>>, buffers |-> <<>>]
                ELSE ReadBackBuffers(c1, 0, buffer_count, g)
           nulls == [i \in 1..Len(r.hs) |-> Null]
       IN  IF ~ndebug /\ r.c.part THEN Abort
           ELSE /\ ~TooBig(buffer_count)
                /\ s_resources' = PutAll(s_resources, r.hs, nulls)
                /\ s_resource_views' =
                     IF api \in {device_api.d3d9, device_api.opengl}
                     THEN PutAll(s_resource_views, r.hs, nulls)
                     ELSE s_resource_views
                /\ pc' = "play"
                /\ Return("destroy_swapchain", r.c, [hs |-> r.hs])
                /\ UNCHANGED <<calls, live, next_live, s_samplers, s_pipelines,
                               s_pipeline_layouts, s_descriptor_tables>>

play_bind_index_buffer ==
  /\ AtTag("bind_index_buffer")
  /\ \E g \in Garbage :
       LET handle == Get(TagCur, 8, g)
           c1 == Step(TagCur, 8)
           offset == Val(Get(c1, 8, g))
           c2 == Step(c1, 8)
           index_size == Val(Get(c2, 4, g))
           c3 == Step(c2, 4)
       IN  IF ~ndebug /\ c3.part THEN Abort
           ELSE /\ s_resources' = Touch(s_resources, handle)
                /\ calls' = Append(calls, Call("bind_index_buffer",
                                     <<At(s_resources, handle), offset, index_size>>))
                /\ pc' = "play"
                /\ Return("bind_index_buffer", c3,
                          [hs |-> <<handle>>, offset |-> offset, index_size |-> index_size])
                /\ UNCHANGED <<live, next_live, s_samplers, s_resource_views,
                               s_pipelines, s_pipeline_layouts, s_descriptor_tables>>

(***************************************************************************)
(* Descriptor updates in the replayer.                                     *)
(***************************************************************************)
\* read(data, size) into a buffer that holds buf: the bytes the file gives
\* replace the first ones, the rest keeps what it held
ReadInto(c, w, buf) ==
  [i \in 1..Len(buf) |-> IF i <= w /\ c.p + i <= Len(file) THEN file[c.p + i] ELSE buf[i]]

\* handle[j - 1] of the local uint64_t handle[3]
Word(buf, j) == SubSeq(buf, 8 * j - 7, 8 * j)

\* the switch with the sampler-with-view pairs and the buffer ranges stored
\* one word per entry, as the single handles are
StoreDescriptorPacked(descs, type, k, handle) ==
  CASE type = descriptor_type.sampler ->
         [descs EXCEPT ![k + 1] = At(s_samplers, Word(handle, 1))]
    [] type \in { descriptor_type.shader_resource_view,
                  descriptor_type.unordered_access_view,
                  descriptor_type.shader_storage_buffer } ->
         [descs EXCEPT ![k + 1] = At(s_resource_views, Word(handle, 1))]
    [] type = descriptor_type.sampler_with_resource_view ->
         [descs EXCEPT ![k + 1] = At(s_samplers, Word(handle, 1)),
                       ![k + 2] = At(s_resource_views, Word(handle, 2))]
    [] type = descriptor_type.constant_buffer ->
         [descs EXCEPT ![k + 1] = At(s_resources, Word(handle, 1)),
                       ![k + 2] = Word(handle, 2),
                       ![k + 3] = Word(handle, 3)]
    [] OTHER -> descs

\* descs after the case of the switch for entry k (from 0) has stored handle
StoreDescriptor(descs, type, k, handle) ==
  CASE type = descriptor_type.sampler ->
         [descs EXCEPT ![k + 1] = At(s_samplers, Word(handle, 1))]
    [] type \in { descriptor_type.shader_resource_view,
                  descriptor_type.unordered_access_view,
                  descriptor_type.shader_storage_buffer } ->
         [descs EXCEPT ![k + 1] = At(s_resource_views, Word(handle, 1))]
    [] type = descriptor_type.sampler_with_resource_view ->
         [descs EXCEPT ![k * 2 + 1] = At(s_samplers, Word(handle, 1)),
                       ![k * 2 + 2] = At(s_resource_views, Word(handle, 2))]
    [] type = descriptor_type.constant_buffer ->
         [descs EXCEPT ![k * 3 + 1] = At(s_resources, Word(handle, 1)),
                       ![k * 3 + 2] = Word(handle, 2),
                       ![k * 3 + 3] = Word(handle, 3)]
    [] OTHER -> descs

\* the registry a case of the switch looks word j of handle up in, if any
LookedUp(type, j) ==
  CASE type = descriptor_type.sampler /\ j = 1 -> "sampler"
    [] type \in { descriptor_type.shader_resource_view,
                  descriptor_type.unordered_access_view,
                  descriptor_type.shader_storage_buffer } /\ j = 1 -> "resource_view"
    [] type = descriptor_type.sampler_with_resource_view /\ j = 1 -> "sampler"
    [] type = descriptor_type.sampler_with_resource_view /\ j = 2 -> "resource_view"
    [] type = descriptor_type.constant_buffer /\ j = 1 -> "resource"
    [] OTHER -> "none"

\* the loop over the entries k .. count - 1 of one update: the cursor, the
\* vector of count * 3 words, and what each read left in handle
RECURSIVE ReadDescriptors(_, _, _, _, _, _)
ReadDescriptors(c, count, type, k, handle, descs) ==
  IF k >= count THEN [c |-> c, descs |-> descs, raw |-> <<>>]
  ELSE LET w == 8 * DescriptorWords(type)
           h == ReadInto(c, w, handle)
           rest == ReadDescriptors(Step(c, w), count, type, k + 1, h,
                                   StoreDescriptor(descs, type, k, h))
       IN  [rest EXCEPT !.raw = <<h>> \o @]

\* the origin handles among raw that went through the registry of category cat
LookUps(cat, type, raw) ==
  Flat([ k \in 1..Len(raw) |->
           Flat([ j \in 1..3 |->
                    IF LookedUp(type, j) = cat THEN <<Word(raw[k], j)>> ELSE <<>> ]) ])

ZeroHandle == [i \in 1..24 |-> 0]

\* update.binding .. update.type and the descriptors that follow them
ReadUpdate(c, g) ==
  LET a == ReadArray(c, 4, 4, g)
      count == Val(a.vals[3])
      type == Val(a.vals[4])
  IN  IF TooBig(count)
      THEN [ c |-> a.c, big |-> TRUE, binding |-> Val(a.vals[1]),
             array_offset |-> Val(a.vals[2]), count |-> count, type |-> type,
             descs |-> <<>>, raw |-> <<>> ]
      ELSE LET r == ReadDescriptors(a.c, count, type, 0, ZeroHandle,
                                    [j \in 1..(count * 3) |-> Null])
           IN  [ c |-> r.c, big |-> FALSE, binding |-> Val(a.vals[1]),
                 array_offset |-> Val(a.vals[2]), count |-> count, type |-> type,
                 descs |-> r.descs, raw |-> r.raw ]

\* the loop of play_update_descriptor_sets over n updates
RECURSIVE ReadUpdates(_, _, _)
ReadUpdates(c, n, g) ==
  IF n = 0 THEN [c |-> c, updates |-> <<>>, big |-> FALSE]
  ELSE LET table_handle == Get(c, 8, g)
           u == ReadUpdate(Step(c, 8), g)
       IN  IF u.big THEN [c |-> u.c, updates |-> <<>>, big |-> TRUE]
           ELSE LET rest == ReadUpdates(u.c, n - 1, g)
                IN  [rest EXCEPT !.updates =
                       <<[ table |-> table_handle, binding |-> u.binding,
                           array_offset |-> u.array_offset, count |-> u.count,
                           type |-> u.type, descs |-> u.descs, raw |-> u.raw ]>> \o @]

\* the origin handles of all updates looked up in the registry of cat
AllLookUps(cat, updates) ==
  Flat([i \in 1..Len(updates) |-> LookUps(cat, updates[i].type, updates[i].raw)])

\* what update.descriptors points to.  array i is the storage of the inner
\* vector descriptors[i - 1], whose words are the decoded descriptors
InnerVector(i, descs) == [array |-> i, words |-> descs]
\* array 0 is the storage of the outer vector, which holds the inner vector
\* objects: three pointers each, addresses that carry no descriptor
OuterVector(n, g) == [array |-> 0, words |-> [j \in 1..(3 * n) |-> Hnd(g)]]
\* the expression assigned to update.descriptors in the loop for updates[i - 1]
descriptors_data(i, u, n, g) == OuterVector(n, g)

play_update_descriptor_sets ==
  /\ AtTag("update_descriptor_tables")
  /\ \E g \in Garbage :
       LET count == Val(Get(TagCur, 4, g))
           c1 == Step(TagCur, 4)
           r == IF TooBig(count) THEN [c |-> c1, updates |-> <<>>, big |-> TRUE]
                ELSE ReadUpdates(c1, count, g)
           tables == [i \in 1..Len(r.updates) |-> r.updates[i].table]
       IN  IF (~ndebug /\ r.c.part) \/ r.big THEN Abort
           ELSE /\ s_descriptor_tables' = TouchAll(s_descriptor_tables, tables)
                /\ s_samplers' = TouchAll(s_samplers, AllLookUps("sampler", r.updates))
                /\ s_resource_views' =
                     TouchAll(s_resource_views, AllLookUps("resource_view", r.updates))
                /\ s_resources' = TouchAll(s_resources, AllLookUps("resource", r.updates))
                /\ calls' = Append(calls, Call("update_descriptor_tables",
                     << count,
                        [ i \in 1..count |->
                            [ table |-> At(s_descriptor_tables, tables[i]),
                              binding |-> r.updates[i].binding,
                              array_offset |-> r.updates[i].array_offset,
                              count |-> r.updates[i].count,
                              type |-> r.updates[i].type,
                              descriptors |->
                                descriptors_data(i, r.updates[i], count, g) ] ] >>))
                /\ pc' = "play"
                /\ Return("update_descriptor_tables", r.c,
                          [hs |-> tables, updates |-> r.updates])
                /\ UNCHANGED <<live, next_live, s_pipelines, s_pipeline_layouts>>

play_push_descriptors ==
  /\ AtTag("push_descriptors")
  /\ \E g \in Garbage :
       LET stages == Val(Get(TagCur, 4, g))
           c1 == Step(TagCur, 4)
           layout == Get(c1, 8, g)
           c2 == Step(c1, 8)
           param == Val(Get(c2, 4, g))
           u == ReadUpdate(Step(c2, 4), g)
       IN  IF (~ndebug /\ u.c.part) \/ u.big THEN Abort
           ELSE /\ s_pipeline_layouts' = Touch(s_pipeline_layouts, layout)
                /\ s_samplers' = TouchAll(s_samplers, LookUps("sampler", u.type, u.raw))
                /\ s_resource_views' =
                     TouchAll(s_resource_views, LookUps("resource_view", u.type, u.raw))
                /\ s_resources' = TouchAll(s_resources, LookUps("resource", u.type, u.raw))
                /\ calls' = Append(calls, Call("push_descriptors",
                     << stages, At(s_pipeline_layouts, layout), param,
                        [ table |-> Null, binding |-> u.binding,
                          array_offset |-> u.array_offset, count |-> u.count,
                          type |-> u.type,
                          descriptors |-> InnerVector(1, u.descs) ] >>))
                /\ pc' = "play"
                /\ Return("push_descriptors", u.c,
                          [ hs |-> <<layout>>,
                            updates |-> <<[ table |-> Null, binding |-> u.binding,
                                            array_offset |-> u.array_offset,
                                            count |-> u.count, type |-> u.type,
                                            descs |-> u.descs, raw |-> u.raw ]>> ])
                /\ UNCHANGED <<live, next_live, s_pipelines, s_descriptor_tables>>

play_draw ==
  /\ AtTag("draw")
  /\ \E g \in Garbage :
       LET a == ReadArray(TagCur, 4, 4, g)
       IN  IF ~ndebug /\ a.c.part THEN Abort
           ELSE /\ calls' = Append(calls, Call("draw", [i \in 1..4 |-> Val(a.vals[i])]))
                /\ pc' = "play"
                /\ Return("draw", a.c, [hs |-> <<>>])
                /\ UNCHANGED <<live, next_live, regVars>>

play_copy_resource ==
  /\ AtTag("copy_resource")
  /\ \E g \in Garbage :
       LET src_handle == Get(TagCur, 8, g)
           c1 == Step(TagCur, 8)
           dst_handle == Get(c1, 8, g)
           c2 == Step(c1, 8)
       IN  IF ~ndebug /\ c2.part THEN Abort
           ELSE /\ s_resources' = TouchAll(s_resources, <<src_handle, dst_handle>>)
                /\ calls' = Append(calls, Call("copy_resource",
                                               <<At(s_resources, src_handle),
                                                 At(s_resources, dst_handle)>>))
                /\ pc' = "play"
                /\ Return("copy_resource", c2, [hs |-> <<src_handle, dst_handle>>])
                /\ UNCHANGED <<live, next_live, s_samplers, s_resource_views,
                               s_pipelines, s_pipeline_layouts, s_descriptor_tables>>

play_copy_buffer_region ==
  /\ AtTag("copy_buffer_region")
  /\ \E g \in Garbage :
       LET src_handle == Get(TagCur, 8, g)
           c1 == Step(TagCur, 8)
           src_offset == Val(Get(c1, 8, g))
           c2 == Step(c1, 8)
           dst_handle == Get(c2, 8, g)
           c3 == Step(c2, 8)
           dst_offset == Val(Get(c3, 8, g))
           c4 == Step(c3, 8)
           size == Val(Get(c4, 8, g))
           c5 == Step(c4, 8)
       IN  IF ~ndebug /\ c5.part THEN Abort
           ELSE /\ s_resources' = TouchAll(s_resources, <<src_handle, dst_handle>>)
                /\ calls' = Append(calls, Call("copy_buffer_region",
                                               <<At(s_resources, src_handle), src_offset,
                                                 At(s_resources, dst_handle), dst_offset,
                                                 size>>))
                /\ pc' = "play"
                /\ Return("copy_buffer_region", c5, [hs |-> <<src_handle, dst_handle>>])
                /\ UNCHANGED <<live, next_live, s_samplers, s_resource_views,
                               s_pipelines, s_pipeline_layouts, s_descriptor_tables>>

\* a byte read as bool

play_clear_depth_stencil_view ==
  /\ AtTag("clear_depth_stencil_view")
  /\ \E g \in Garbage :
       LET dsv_handle == Get(TagCur, 8, g)
           c1 == Step(TagCur, 8)
           has_depth == AsBool(Get(c1, 1, g))
           c2 == Step(c1, 1)
           depth == IF has_depth THEN Get(c2, 4, g) ELSE U32(0)
           c3 == IF has_depth THEN Step(c2, 4) ELSE c2
           has_stencil == AsBool(Get(c3, 1, g))
           c4 == Step(c3, 1)
           stencil == IF has_stencil THEN Val(Get(c4, 1, g)) ELSE 0
           c5 == IF has_stencil THEN Step(c4, 1) ELSE c4
       IN  IF ~ndebug /\ c5.part THEN Abort
           ELSE /\ s_resource_views' = Touch(s_resource_views, dsv_handle)
                /\ calls' = Append(calls, Call("clear_depth_stencil_view",
                     <<At(s_resource_views, dsv_handle),
                       [null |-> ~has_depth, bits |-> depth],
                       [null |-> ~has_stencil, v |-> stencil]>>))
                /\ pc' = "play"
                /\ Return("clear_depth_stencil_view", c5, [hs |-> <<dsv_handle>>])
                /\ UNCHANGED <<live, next_live, s_samplers, s_resources, s_pipelines,
                               s_pipeline_layouts, s_descriptor_tables>>

(***************************************************************************)
(* Resource mapping events.                                                *)
(***************************************************************************)
ReadBox(bs) ==
  [ null |-> FALSE, left |-> Val(SubSeq(bs, 1, 4)), top |-> Val(SubSeq(bs, 5, 8)),
    front |-> Val(SubSeq(bs, 9, 12)), right |-> Val(SubSeq(bs, 13, 16)),
    bottom |-> Val(SubSeq(bs, 17, 20)), back |-> Val(SubSeq(bs, 21, 24)) ]

\* a map handler that maps the live resource right away
play_map_buffer_region_live ==
  /\ AtTag("map_buffer_region")
  /\ \E g \in Garbage :
       LET handle == Get(TagCur, 8, g)
           c4 == Step(Step(Step(Step(TagCur, 8), 8), 8), 4)
       IN  /\ calls' = Append(calls, Call("map_buffer_region", <<At(s_resources, handle)>>))
           /\ pc' = "play"
           /\ Return("map_buffer_region", c4, [hs |-> <<>>])
           /\ UNCHANGED <<regVars, live, next_live>>

play_map_buffer_region ==
  /\ AtTag("map_buffer_region")
  /\ \E g \in Garbage :
       LET c4 == Step(Step(Step(Step(TagCur, 8), 8), 8), 4)
       IN  IF ~ndebug /\ c4.part THEN Abort
           ELSE /\ pc' = "play"
                /\ Return("map_buffer_region", c4, [hs |-> <<>>])
                /\ UNCHANGED <<regVars, devVars>>

play_unmap_buffer_region ==
  /\ AtTag("unmap_buffer_region")
  /\ \E g \in Garbage, mapped \in BOOLEAN :
       LET handle == Get(TagCur, 8, g)
           c1 == Step(TagCur, 8)
           offset == Val(Get(c1, 8, g))
           c2 == Step(c1, 8)
           size == Val(Get(c2, 8, g))
           c3 == Step(c2, 8)
           access == Val(Get(c3, 4, g))
           c4 == Step(c3, 4)
           writes == access # map_access.read_only
           c5 == IF writes /\ ~TooBig(size) THEN Step(c4, size) ELSE c4
           data == IF writes /\ ~TooBig(size) THEN GetBuf(c4, size) ELSE <<>>
           res == At(s_resources, handle)
           d == [h |-> handle, offset |-> offset, size |-> size, access |-> access,
                 data |-> data, res |-> res, mapped |-> mapped]
       IN  IF (~ndebug /\ c5.part) \/ (writes /\ TooBig(size)) THEN Abort
           ELSE /\ s_resources' = IF writes THEN Touch(s_resources, handle) ELSE s_resources
                /\ calls' = calls \o
                     (IF writes /\ res # Null
                      THEN <<Call("map_buffer_region", <<res, offset, size, access, mapped>>)>>
                           \o (IF mapped
                               THEN <<Call("memcpy", <<data>>),
                                      Call("unmap_buffer_region", <<res>>)>>
                               ELSE <<>>)
                      ELSE <<>>)
                /\ pc' = "play"
                /\ Return("unmap_buffer_region", c5, d)
                /\ UNCHANGED <<live, next_live, s_samplers, s_resource_views,
                               s_pipelines, s_pipeline_layouts, s_descriptor_tables>>

play_map_texture_region ==
  /\ AtTag("map_texture_region")
  /\ \E g \in Garbage :
       LET c2 == Step(Step(TagCur, 8), 4)
           has_box == AsBool(Get(c2, 1, g))
           c3 == Step(c2, 1)
           c4 == IF has_box THEN Step(c3, 24) ELSE c3
           c5 == Step(c4, 4)
       IN  IF ~ndebug /\ c5.part THEN Abort
           ELSE /\ pc' = "play"
                /\ Return("map_texture_region", c5, [hs |-> <<>>])
                /\ UNCHANGED <<regVars, devVars>>

play_unmap_texture_region ==
  /\ AtTag("unmap_texture_region")
  /\ \E g \in Garbage, mapped \in BOOLEAN :
       LET handle == Get(TagCur, 8, g)
           c1 == Step(TagCur, 8)
           subresource == Val(Get(c1, 4, g))
           c2 == Step(c1, 4)
           has_box == AsBool(Get(c2, 1, g))
           c3 == Step(c2, 1)
           box == IF has_box THEN ReadBox(Get(c3, 24, g)) ELSE NoBox
           c4 == IF has_box THEN Step(c3, 24) ELSE c3
           access == Val(Get(c4, 4, g))
           c5 == Step(c4, 4)
           writes == access # map_access.read_only
           size == IF writes THEN Val(Get(c5, 8, g)) ELSE 0
           c6 == IF writes THEN Step(c5, 8) ELSE c5
           c7 == IF writes /\ ~TooBig(size) THEN Step(c6, size) ELSE c6
           data == IF writes /\ ~TooBig(size) THEN GetBuf(c6, size) ELSE <<>>
           res == At(s_resources, handle)
           d == [h |-> handle, subresource |-> subresource, box |-> box,
                 access |-> access, size |-> size, data |-> data, res |-> res,
                 mapped |-> mapped]
       IN  IF (~ndebug /\ c7.part) \/ (writes /\ TooBig(size)) THEN Abort
           ELSE /\ s_resources' = IF writes THEN Touch(s_resources, handle) ELSE s_resources
                /\ calls' = calls \o
                     (IF writes /\ res # Null
                      THEN <<Call("map_texture_region",
                                  <<res, subresource, box, access, mapped>>)>>
                           \o (IF mapped
                               THEN <<Call("memcpy", <<data>>),
                                      Call("unmap_texture_region", <<res, subresource>>)>>
                               ELSE <<>>)
                      ELSE <<>>)
                /\ pc' = "play"
                /\ Return("unmap_texture_region", c7, d)
                /\ UNCHANGED <<live, next_live, s_samplers, s_resource_views,
                               s_pipelines, s_pipeline_layouts, s_descriptor_tables>>

\* an update handler that does not look at the live mapping of the resource
play_update_buffer_region_unchecked ==
  /\ AtTag("update_buffer_region")
  /\ \E g \in Garbage :
       LET handle == Get(TagCur, 8, g)
           c1 == Step(TagCur, 8)
           offset == Val(Get(c1, 8, g))
           c2 == Step(c1, 8)
           size == Val(Get(c2, 8, g))
           c3 == Step(c2, 8)
           c4 == IF TooBig(size) THEN c3 ELSE Step(c3, size)
           data == IF TooBig(size) THEN <<>> ELSE GetBuf(c3, size)
           res == At(s_resources, handle)
           d == [h |-> handle, offset |-> offset, size |-> size, data |-> data, res |-> res]
       IN  /\ ~TooBig(size)
           /\ s_resources' = Touch(s_resources, handle)
           /\ calls' = Append(calls, Call("update_buffer_region", <<data, res, offset, size>>))
           /\ pc' = "play"
           /\ Return("update_buffer_region", c4, d)
           /\ UNCHANGED <<live, next_live, s_samplers, s_resource_views,
                          s_pipelines, s_pipeline_layouts, s_descriptor_tables>>

play_update_buffer_region ==
  /\ AtTag("update_buffer_region")
  /\ \E g \in Garbage :
       LET handle == Get(TagCur, 8, g)
           c1 == Step(TagCur, 8)
           offset == Val(Get(c1, 8, g))
           c2 == Step(c1, 8)
           size == Val(Get(c2, 8, g))
           c3 == Step(c2, 8)
           c4 == IF TooBig(size) THEN c3 ELSE Step(c3, size)
           data == IF TooBig(size) THEN <<>> ELSE GetBuf(c3, size)
           res == At(s_resources, handle)
           d == [h |-> handle, offset |-> offset, size |-> size, data |-> data, res |-> res]
       IN  IF (~ndebug /\ c4.part) \/ TooBig(size) THEN Abort
           ELSE /\ s_resources' = IF data # <<>> THEN Touch(s_resources, handle)
                                  ELSE s_resources
                /\ calls' = calls \o
                     (IF data # <<>> /\ res # Null
                      THEN <<Call("update_buffer_region", <<data, res, offset, size>>)>>
                      ELSE <<>>)
                /\ pc' = "play"
                /\ Return("update_buffer_region", c4, d)
                /\ UNCHANGED <<live, next_live, s_samplers, s_resource_views,
                               s_pipelines, s_pipeline_layouts, s_descriptor_tables>>

play_update_texture_region ==
  /\ AtTag("update_texture_region")
  /\ \E g \in Garbage :
       LET handle == Get(TagCur, 8, g)
           c1 == Step(TagCur, 8)
           subresource == Val(Get(c1, 4, g))
           c2 == Step(c1, 4)
           has_box == AsBool(Get(c2, 1, g))
           c3 == Step(c2, 1)
           box == IF has_box THEN ReadBox(Get(c3, 24, g)) ELSE NoBox
           c4 == IF has_box THEN Step(c3, 24) ELSE c3
           row_pitch == Val(Get(c4, 4, g))
           c5 == Step(c4, 4)
           slice_pitch == Val(Get(c5, 4, g))
           c6 == Step(c5, 4)
           size == Val(Get(c6, 8, g))
           c7 == Step(c6, 8)
           c8 == IF TooBig(size) THEN c7 ELSE Step(c7, size)
           data == IF TooBig(size) THEN <<>> ELSE GetBuf(c7, size)
           res == At(s_resources, handle)
           d == [h |-> handle, subresource |-> subresource, box |-> box, size |-> size,
                 data |-> data, res |-> res]
       IN  IF (~ndebug /\ c8.part) \/ TooBig(size) THEN Abort
           ELSE /\ s_resources' = IF data # <<>> THEN Touch(s_resources, handle)
                                  ELSE s_resources
                /\ calls' = calls \o
                     (IF data # <<>> /\ res # Null
                      THEN <<Call("update_texture_region",
                                  <<[row_pitch |-> row_pitch, slice_pitch |-> slice_pitch,
                                     data |-> data], res, subresource, box>>)>>
                      ELSE <<>>)
                /\ pc' = "play"
                /\ Return("update_texture_region", c8, d)
                /\ UNCHANGED <<live, next_live, s_samplers, s_resource_views,
                               s_pipelines, s_pipeline_layouts, s_descriptor_tables>>

(***************************************************************************)
(* play_frame: the loop around the handlers.                               *)
(***************************************************************************)
\* a switch whose barrier case only breaks as well
NoPayloadAndBarrier ==
  { addon_event[n] : n \in { "init_query_heap", "destroy_query_heap",
      "get_query_heap_results", "barrier", "begin_query", "end_query",
      "copy_query_heap_results", "reset_command_list", "close_command_list",
      "execute_command_list", "execute_secondary_command_list" } }
\* tags whose case is a bare break
NoPayload ==
  { addon_event[n] : n \in { "init_query_heap", "destroy_query_heap",
      "get_query_heap_results", "begin_query", "end_query",
      "copy_query_heap_results", "reset_command_list", "close_command_list",
      "execute_command_list", "execute_secondary_command_list" } }
\* tags that have a case in the switch
Handled == { addon_event[n] : n \in DOMAIN addon_event }

\* for (...; trace_data.read(&ev, sizeof(ev));) fails: return false
PlayEOF ==
  /\ pc = "play"
  /\ TagCur.bad
  /\ IF ~ndebug /\ TagCur.part THEN Abort
     ELSE /\ pos' = TagCur.p
          /\ ret' = "false"
          /\ pc' = "after"
          /\ UNCHANGED <<exit_code, regVars, devVars, hist>>
          /\ Frame

\* a present case that breaks as the cases without payload do
PlayPresentBreak ==
  /\ AtTag("present")
  /\ pos' = TagCur.p
  /\ pc' = "play"
  /\ UNCHANGED <<ret, exit_code, regVars, devVars, hist>>
  /\ Frame

\* case present: return true
PlayPresent ==
  /\ AtTag("present")
  /\ pos' = TagCur.p
  /\ ret' = "true"
  /\ pc' = "after"
  /\ hist' = Append(hist, [k |-> "present", at |-> pos, c0 |-> Len(calls),
                           d |-> [hs |-> <<>>], bad |-> FALSE])
  /\ UNCHANGED <<exit_code, regVars, devVars>>
  /\ Frame

\* a case that only breaks, or default: assert(false); break
PlayOther ==
  /\ pc = "play"
  /\ ~TagCur.bad
  /\ CurTag \in NoPayload \/ CurTag \notin Handled
  /\ IF CurTag \notin Handled /\ ~ndebug THEN Abort
     ELSE /\ pos' = TagCur.p
          /\ pc' = "play"
          /\ UNCHANGED <<ret, exit_code, regVars, devVars, hist>>
          /\ Frame

(***************************************************************************)
(* WinMain (main.cpp).                                                     *)
(***************************************************************************)
\* the steps of WinMain that depend on the machine, in the order of the code:
\* the ReShade module and its entry points, the window, the trace file,
\* the backend of the trace, the effect runtime
StartupSteps == <<"module", "window", "open", "backend", "runtime">>
StartupFailures == {StartupSteps[i] : i \in DOMAIN StartupSteps} \cup {"none"}

\* the w bytes read<T>() returns at c: bytes the file did not give keep what
\* the variable held, which is g in every byte or, by chance, the bytes of like
Uninit(c, w, g, lucky, like) ==
  [i \in 1..w |-> IF c.p + i <= Len(file) THEN file[c.p + i]
                  ELSE IF lucky THEN like[i] ELSE g]

\* from the start of WinMain to the first iteration of the loop; fail is the
\* step that fails on this machine
WinMain ==
  /\ pc = "start"
  /\ \E g \in Garbage, lucky \in BOOLEAN, fail \in StartupFailures :
       LET c0 == [p |-> 0, bad |-> FALSE, part |-> FALSE]
           magic == Uninit(c0, 8, g, lucky, MAGIC)
           c1 == Step(c0, 8)
           graphics_api == Val(Uninit(c1, 4, g, lucky, U32(device_api.d3d11)))
           c2 == Step(c1, 4)
           known == graphics_api \in { device_api.d3d9, device_api.d3d11,
                                       device_api.d3d12, device_api.opengl }
       IN  IF fail \in {"module", "window"}
           THEN /\ pc' = "exit"
                /\ exit_code' = 1
                /\ startup' = fail
                /\ UNCHANGED <<pos, api>>
           ELSE IF fail = "open"
           THEN /\ pc' = "exit"
                /\ exit_code' = 2
                /\ startup' = fail
                /\ UNCHANGED <<pos, api>>
           ELSE IF ~ndebug /\ c1.part
           THEN /\ pc' = "abort"
                /\ startup' = "assert"
                /\ UNCHANGED <<pos, api, exit_code>>
           ELSE IF magic # MAGIC
           THEN /\ pc' = "exit"
                /\ exit_code' = 2
                /\ startup' = "magic"
                /\ pos' = c1.p
                /\ UNCHANGED api
           ELSE IF ~ndebug /\ c2.part
           THEN /\ pc' = "abort"
                /\ startup' = "assert"
                /\ UNCHANGED <<pos, api, exit_code>>
           ELSE IF ~known \/ fail \in {"backend", "runtime"}
           THEN /\ pc' = "exit"
                /\ exit_code' = 1
                /\ startup' = IF ~known THEN "backend" ELSE fail
                /\ pos' = c2.p
                /\ api' = graphics_api
           ELSE /\ pc' = "loop"
                /\ startup' = "ok"
                /\ pos' = c2.p
                /\ api' = graphics_api
                /\ UNCHANGED exit_code
  /\ UNCHANGED <<file, recVars, ndebug, shift_wraps, ret, frames, regVars, devVars, hist, marks>>

\* no WM_QUIT: the barrier, then play_frame is entered
HostFrame ==
  /\ pc = "loop"
  /\ frames < MaxFrames
  /\ calls' = Append(calls, Call("barrier", <<BackBuffer(frames), "present", "render_target">>))
  /\ frames' = frames + 1
  /\ pc' = "play"
  /\ UNCHANGED <<file, recVars, pos, api, ndebug, shift_wraps, ret, exit_code, regVars,
                 live, next_live, hist, marks, startup>>

\* a host loop that presents before the effect runtime has drawn
HostEndFramePresentFirst ==
  /\ pc = "after"
  /\ calls' = calls \o
       << Call("barrier", <<BackBuffer(frames - 1), "render_target", "present">>),
          Call("present", <<>>),
          Call("update_and_present_effect_runtime", <<>>) >>
  /\ pc' = "loop"
  /\ UNCHANGED <<file, recVars, pos, api, ndebug, shift_wraps, ret, frames, exit_code, regVars,
                 live, next_live, hist, marks, startup>>

\* play_frame returned; its result is dropped
HostEndFrame ==
  /\ pc = "after"
  /\ calls' = calls \o
       << Call("barrier", <<BackBuffer(frames - 1), "render_target", "present">>),
          Call("update_and_present_effect_runtime", <<>>),
          Call("present", <<>>) >>
  /\ pc' = "loop"
  /\ UNCHANGED <<file, recVars, pos, api, ndebug, shift_wraps, ret, frames, exit_code, regVars,
                 live, next_live, hist, marks, startup>>

\* a host that reports failure after the window was closed
HostQuitFailure ==
  /\ pc = "loop"
  /\ calls' = Append(calls, Call("destroy_effect_runtime", <<>>))
  /\ pc' = "exit"
  /\ exit_code' = 1
  /\ UNCHANGED <<file, recVars, pos, api, ndebug, shift_wraps, ret, frames, regVars,
                 live, next_live, hist, marks, startup>>

\* WM_QUIT arrived: the window was closed
HostQuit ==
  /\ pc = "loop"
  /\ calls' = Append(calls, Call("destroy_effect_runtime", <<>>))
  /\ pc' = "exit"
  /\ exit_code' = 0
  /\ UNCHANGED <<file, recVars, pos, api, ndebug, shift_wraps, ret, frames, regVars,
                 live, next_live, hist, marks, startup>>

(***************************************************************************)
(* Recorded traces.                                                        *)
(***************************************************************************)
\* the bytes of each event of an application run, callbacks one after another
RECURSIVE RecordAll(_, _)
RecordAll(evs, maps) ==
  IF evs = <<>> THEN <<>>
  ELSE <<Flat(Written(Head(evs), maps))>>
       \o RecordAll(Tail(evs), MappingsAfter(Head(evs), maps))

RECURSIVE SumLen(_, _)
SumLen(parts, n) == IF n = 0 THEN 0 ELSE Len(parts[n]) + SumLen(parts, n - 1)

H1 == Hnd(1)
H2 == Hnd(2)

BufferDesc == [type |-> resource_type.buffer, size |-> 2]
TextureDesc ==
  [ type |-> resource_type.texture_2d, width |-> 2, height |-> 1,
    depth_or_layers |-> 1, levels |-> 1, format |-> format.r8_unorm ]
NoData == [null |-> TRUE, fill |-> 0, row_pitch |-> 0, slice_pitch |-> 0]

\* operations of the application; each is the sequence of callbacks it causes
OpInitBuffer ==
  << [ k |-> "init_resource", h |-> H1, desc |-> BufferDesc, state |-> 0,
       init |-> [null |-> FALSE, fill |-> 7, row_pitch |-> 0, slice_pitch |-> 0] ] >>
OpInitTexture ==
  << [k |-> "init_resource", h |-> H2, desc |-> TextureDesc, state |-> 0, init |-> NoData] >>
OpDestroyBuffer == << [k |-> "destroy_resource", h |-> H1] >>
OpMapBuffer ==
  << [ k |-> "map_buffer_region", res |-> H1, offset |-> 0, size |-> 2,
       access |-> map_access.write_only, data |-> 5 ],
     [k |-> "unmap_buffer_region", res |-> H1] >>
OpMapTexture ==
  << [ k |-> "map_texture_region", res |-> H2, subresource |-> 0, box |-> NoBox,
       access |-> map_access.write_only, data |-> 9, row_pitch |-> 2,
       slice_pitch |-> 2 ],
     [k |-> "unmap_texture_region", res |-> H2, subresource |-> 0, desc |-> TextureDesc] >>
OpUpdateBuffer ==
  << [k |-> "update_buffer_region", res |-> H1, offset |-> 0, size |-> 2, data |-> 11] >>
OpUpdateTexture ==
  << [ k |-> "update_texture_region", res |-> H2, subresource |-> 0, box |-> NoBox,
       row_pitch |-> 2, slice_pitch |-> 2, data |-> 13, desc |-> TextureDesc ] >>
OpBarrier ==
  << [ k |-> "barrier",
       resources |-> << [resource |-> H1, old_state |-> 1, new_state |-> 2] >> ] >>
OpRenderPass ==
  << [ k |-> "begin_render_pass", rts |-> << [view |-> H1, load_op |-> 1] >>,
       ds |-> [null |-> FALSE, view |-> H2, load_op |-> 2] ],
     [k |-> "end_render_pass"] >>
OpBindPipeline == << [k |-> "bind_pipeline", stages |-> 1, h |-> H1] >>
OpDraw ==
  << [ k |-> "draw", vertex_count |-> 3, instance_count |-> 1,
       first_vertex |-> 0, first_instance |-> 0 ] >>
OpCopyResource == << [k |-> "copy_resource", src |-> H1, dst |-> H2] >>
OpCopyBufferRegion ==
  << [ k |-> "copy_buffer_region", src |-> H1, src_offset |-> 0, dst |-> H2,
       dst_offset |-> 1, size |-> 1 ] >>
\* depth 1.0f
OpClear ==
  << [ k |-> "clear_depth_stencil_view", dsv |-> H1,
       depth |-> [null |-> FALSE, bits |-> <<0, 0, 128, 63>>],
       stencil |-> [null |-> FALSE, v |-> 0] ] >>
OpPresent == << [k |-> "present"] >>

Ops ==
  { OpInitBuffer, OpDestroyBuffer, OpBarrier, OpRenderPass, OpBindPipeline,
    OpDraw, OpCopyResource, OpCopyBufferRegion, OpClear, OpPresent }

Apis == { device_api.d3d11, device_api.opengl }
NoThread == 0

\* the playback application before WinMain
\* (no trace replayed holds a subresource of level 32 or more, where
\* shift_wraps is read)
NotStarted ==
  /\ ndebug \in BOOLEAN
  /\ shift_wraps = FALSE
  /\ startup = "none"
  /\ pos = 0
  /\ pc = "start"
  /\ api = 0
  /\ ret = "none"
  /\ frames = 0
  /\ exit_code = -1
  /\ s_samplers = EmptyMap
  /\ s_resources = EmptyMap
  /\ s_resource_views = EmptyMap
  /\ s_pipelines = EmptyMap
  /\ s_pipeline_layouts = EmptyMap
  /\ s_descriptor_tables = EmptyMap
  /\ calls = <<>>
  /\ live = {}
  /\ next_live = 0
  /\ hist = <<>>

\* ... and no capture callback running
Blank ==
  /\ s_mutex = NoThread
  /\ thr = <<>>
  /\ mappings = <<>>
  /\ NotStarted

\* the state when WinMain starts on the trace of an application run on one of
\* apis, made of operations of alphabet, with cut bytes missing when the run
\* is one operation
InitWith(alphabet, apis) ==
  \E n \in 0..MaxEvents :
    \E run \in [1..n -> alphabet], a \in apis, cut \in 0..MaxCut :
      LET evs == Flat(run)
          parts == RecordAll(evs, <<>>)
          full == Flat(device_data(a)) \o Flat(parts)
      IN  /\ cut > 0 => n = 1
          /\ file = SubSeq(full, 1, Len(full) - cut)
          /\ order = [i \in 1..Len(evs) |-> [t |-> 1, e |-> evs[i], bytes |-> parts[i]]]
          /\ marks = [i \in 1..(Len(evs) + 1) |-> 12 + SumLen(parts, i - 1)]
          /\ devices = <<Device(a, TraceName(1, 1), TRUE)>>
  /\ index = 1
  /\ Blank

Init == InitWith(Ops, {device_api.d3d11})

Next ==
  \/ WinMain
  \/ HostFrame
  \/ HostEndFrame
  \/ HostQuit
  \/ PlayEOF
  \/ PlayPresent
  \/ PlayOther
  \/ play_init_resource
  \/ play_destroy_resource
  \/ play_barrier
  \/ play_begin_render_pass
  \/ play_end_render_pass
  \/ play_bind_pipeline
  \/ play_draw
  \/ play_copy_resource
  \/ play_copy_buffer_region
  \/ play_clear_depth_stencil_view

Spec == Init /\ [][Next]_vars

\* every tag the replayer meets has its handler in the model
InScope ==
  pc = "play" /\ ~TagCur.bad =>
    CurTag \in NoPayload \/ CurTag \notin Handled \/
    CurTag \in { addon_event[n] : n \in
      { "init_sampler", "destroy_sampler", "init_resource", "destroy_resource",
        "init_resource_view", "destroy_resource_view", "init_pipeline",
        "destroy_pipeline", "init_pipeline_layout", "destroy_pipeline_layout",
        "map_buffer_region", "unmap_buffer_region", "map_texture_region",
        "unmap_texture_region", "update_buffer_region", "update_texture_region",
        "barrier", "begin_render_pass", "end_render_pass",
        "bind_pipeline", "draw", "copy_resource",
        "copy_buffer_region", "clear_depth_stencil_view", "present" } }

(***************************************************************************)
(* Resource mappings: traces of resources being created, mapped, written   *)
(* and unmapped.                                                           *)
(***************************************************************************)
MapOps ==
  { OpInitBuffer, OpInitTexture, OpDestroyBuffer, OpMapBuffer, OpMapTexture,
    OpUpdateBuffer, OpUpdateTexture, OpPresent }

InitMap == InitWith(MapOps, {device_api.d3d11})

NextMap ==
  \/ WinMain
  \/ HostFrame
  \/ HostEndFrame
  \/ HostQuit
  \/ PlayEOF
  \/ PlayPresent
  \/ play_init_resource
  \/ play_destroy_resource
  \/ play_map_buffer_region
  \/ play_unmap_buffer_region
  \/ play_map_texture_region
  \/ play_unmap_texture_region
  \/ play_update_buffer_region
  \/ play_update_texture_region

SpecMap == InitMap /\ [][NextMap]_vars

(***************************************************************************)
(* Start of the playback: the files WinMain may be given.  Besides the     *)
(* traces of the recorder these are files it did not write: a header with  *)
(* one byte of the magic changed, the first bytes of a header, and a trace *)
(* with a tag value that play_frame has no case for.                       *)
(***************************************************************************)
AllApis == {device_api[n] : n \in DOMAIN device_api}
HeadOps == {OpDraw, OpPresent}

\* tag values without a case in the switch of play_frame
UnknownTags == {0, 7, 75}

Header == Flat(device_data(device_api.d3d11))
ForeignFiles ==
  { [i \in 1..8 |-> IF i = k THEN (MAGIC[i] + 1) % 256 ELSE MAGIC[i]]
      \o U32(device_api.d3d11) \o Flat(on_present(OpPresent[1])) : k \in 1..8 }
  \cup { SubSeq(Header, 1, n) : n \in 0..11 }
  \cup { Header \o U32(u) \o rest :
           u \in UnknownTags,
           rest \in { <<>>, Flat(on_draw(OpDraw[1])), Flat(on_present(OpPresent[1])),
                      Flat(on_draw(OpDraw[1])) \o Flat(on_present(OpPresent[1])) } }

InitForeign ==
  /\ file \in ForeignFiles
  /\ order = <<>>
  /\ marks = <<>>
  /\ devices = <<>>
  /\ index = 0
  /\ Blank

InitHead == InitWith(HeadOps, AllApis) \/ InitForeign

NextHead ==
  \/ WinMain
  \/ HostFrame
  \/ HostEndFrame
  \/ HostQuit
  \/ PlayEOF
  \/ PlayPresent
  \/ PlayOther
  \/ play_draw

SpecHead == InitHead /\ [][NextHead]_vars

(***************************************************************************)
(* Object lifecycles: traces of init_* and destroy_* events.               *)
(***************************************************************************)
\* (0x8218 << 40) | 0: the default framebuffer of OpenGL
DefaultFramebuffer == <<0, 0, 0, 0, 0, 24, 130, 0>>

OpInitSampler == << [k |-> "init_sampler", h |-> H1, desc |-> [filter |-> 3]] >>
OpDestroySampler == << [k |-> "destroy_sampler", h |-> H1] >>
OpInitFramebuffer ==
  << [ k |-> "init_resource", h |-> DefaultFramebuffer, desc |-> TextureDesc,
       state |-> 0, init |-> NoData ] >>
OpDestroyFramebuffer == << [k |-> "destroy_resource", h |-> DefaultFramebuffer] >>
OpInitView ==
  << [ k |-> "init_resource_view", res |-> H1, usage |-> 1,
       desc |-> [format |-> 4], h |-> H1 ] >>
OpInitFramebufferView ==
  << [ k |-> "init_resource_view", res |-> DefaultFramebuffer, usage |-> 1,
       desc |-> [format |-> 4], h |-> DefaultFramebuffer ] >>
OpDestroyView == << [k |-> "destroy_resource_view", h |-> H1] >>
OpDestroyFramebufferView ==
  << [k |-> "destroy_resource_view", h |-> DefaultFramebuffer] >>
OpInitPipeline ==
  << [ k |-> "init_pipeline", layout |-> H1, h |-> H1,
       subobjects |-> << [type |-> pipeline_subobject_type.blend_state, desc |-> 6] >> ] >>
OpDestroyPipeline == << [k |-> "destroy_pipeline", h |-> H1] >>
OpInitLayout ==
  << [ k |-> "init_pipeline_layout", h |-> H1,
       params |-> << [type |-> pipeline_layout_param_type.push_constants, range |-> 8] >> ] >>
OpDestroyLayout == << [k |-> "destroy_pipeline_layout", h |-> H1] >>

LifeOps ==
  { OpInitSampler, OpDestroySampler, OpInitBuffer, OpDestroyBuffer,
    OpInitFramebuffer, OpDestroyFramebuffer, OpInitView, OpInitFramebufferView,
    OpDestroyView, OpDestroyFramebufferView, OpInitPipeline, OpDestroyPipeline,
    OpInitLayout, OpDestroyLayout }

InitLife == InitWith(LifeOps, Apis)

NextLife ==
  \/ WinMain
  \/ HostFrame
  \/ HostEndFrame
  \/ HostQuit
  \/ PlayEOF
  \/ play_init_sampler
  \/ play_destroy_sampler
  \/ play_init_resource
  \/ play_destroy_resource
  \/ play_init_resource_view
  \/ play_destroy_resource_view
  \/ play_init_pipeline
  \/ play_destroy_pipeline
  \/ play_init_pipeline_layout
  \/ play_destroy_pipeline_layout

SpecLife == InitLife /\ [][NextLife]_vars

(***************************************************************************)
(* Swap chain and lookups: the application creates its swap chain, whose   *)
(* back buffers it also uses and releases as resources, and binds, creates *)
(* and destroys buffers, views and pipelines.                              *)
(***************************************************************************)
\* the back buffers of the traced application: one more than the playback
\* window has
SwapBuffers == <<Hnd(5), Hnd(6), Hnd(7)>>
OpInitSwapchain == << [k |-> "init_swapchain", buffers |-> SwapBuffers] >>
OpDestroySwapchain == << [k |-> "destroy_swapchain", buffers |-> SwapBuffers] >>
OpInitBackBuffer ==
  << [ k |-> "init_resource", h |-> SwapBuffers[1], desc |-> TextureDesc,
       state |-> 0, init |-> NoData ] >>
OpDestroyBackBuffer ==
  { << [k |-> "destroy_resource", h |-> SwapBuffers[i]] >> : i \in {1, 3} }
OpBindIndexBuffer ==
  << [k |-> "bind_index_buffer", buffer |-> H1, offset |-> 0, index_size |-> 2] >>

SwapOps ==
  { OpInitSwapchain, OpDestroySwapchain, OpInitBackBuffer, OpBindIndexBuffer,
    OpInitBuffer, OpDestroyBuffer, OpInitBuffer \o OpDestroyBuffer,
    OpInitView, OpDestroyView, OpInitPipeline, OpDestroyPipeline }
    \cup OpDestroyBackBuffer
    \cup { OpInitSwapchain \o d : d \in OpDestroyBackBuffer }

InitSwap == InitWith(SwapOps, Apis)

NextSwap ==
  \/ WinMain
  \/ HostFrame
  \/ HostEndFrame
  \/ HostQuit
  \/ PlayEOF
  \/ play_init_swapchain
  \/ play_destroy_swapchain
  \/ play_init_resource
  \/ play_destroy_resource
  \/ play_init_resource_view
  \/ play_destroy_resource_view
  \/ play_init_pipeline
  \/ play_destroy_pipeline
  \/ play_bind_index_buffer

SpecSwap == InitSwap /\ [][NextSwap]_vars

\* every tag the replayer meets in these runs has its handler among the steps
InScopeSwap ==
  pc = "play" /\ ~TagCur.bad =>
    CurTag \in { addon_event[n] : n \in
      { "init_swapchain", "destroy_swapchain", "init_resource", "destroy_resource",
        "init_resource_view", "destroy_resource_view", "init_pipeline",
        "destroy_pipeline", "bind_index_buffer" } }

(***************************************************************************)
(* Pipelines: runs in which the application creates pipelines of several   *)
(* subobjects.  A pipeline description holds each subobject type once.     *)
(***************************************************************************)
VertexShader ==
  [ type |-> pipeline_subobject_type.vertex_shader, code |-> <<68, 88, 66>>,
    entry_point |-> Str(<<109, 97>>) ]
PixelShader ==
  [ type |-> pipeline_subobject_type.pixel_shader, code |-> <<1>>, entry_point |-> NullStr ]
InputLayout ==
  [ type |-> pipeline_subobject_type.input_layout,
    elements |->
      << [ location |-> 0, semantic |-> Str(<<80>>), semantic_index |-> 0, format |-> 2,
           buffer_binding |-> 0, offset |-> 0, stride |-> 12, instance_step_rate |-> 0 ],
         [ location |-> 1, semantic |-> NullStr, semantic_index |-> 1, format |-> 3,
           buffer_binding |-> 0, offset |-> 8, stride |-> 12, instance_step_rate |-> 0 ] >> ]
BlendState == [type |-> pipeline_subobject_type.blend_state, desc |-> 6]
RasterizerState == [type |-> pipeline_subobject_type.rasterizer_state, desc |-> 7]
DepthStencilState == [type |-> pipeline_subobject_type.depth_stencil_state, desc |-> 8]
PrimitiveTopology == [type |-> pipeline_subobject_type.primitive_topology]

Pipeline(subobjects) ==
  << [k |-> "init_pipeline", layout |-> H1, h |-> H1, subobjects |-> subobjects] >>

PipeOps ==
  { Pipeline(<<VertexShader, BlendState>>),
    Pipeline(<<BlendState, PixelShader, VertexShader>>),
    Pipeline(<<PrimitiveTopology, RasterizerState, InputLayout, DepthStencilState>>),
    Pipeline(<<>>),
    OpDestroyPipeline }

InitPipe == InitWith(PipeOps, {device_api.d3d11})

NextPipe ==
  \/ WinMain
  \/ HostFrame
  \/ HostEndFrame
  \/ HostQuit
  \/ PlayEOF
  \/ play_init_pipeline
  \/ play_destroy_pipeline

SpecPipe == InitPipe /\ [][NextPipe]_vars

(***************************************************************************)
(* Scenarios: runs in which the application creates an object, creates it  *)
(* again under the same handle and then uses it, and the run of scenario A *)
(* (a buffer with initial data created and destroyed within one frame).    *)
(***************************************************************************)
ScenarioA == OpInitBuffer \o OpDestroyBuffer \o OpPresent
ReinitBuffer == OpInitBuffer \o OpInitBuffer \o OpInitView
ReinitView == OpInitView \o OpInitView \o OpDestroyView
ReinitPipeline == OpInitPipeline \o OpInitPipeline \o OpBindPipeline

ScenOps == { ScenarioA, ReinitBuffer, ReinitView, ReinitPipeline }

InitScen == InitWith(ScenOps, {device_api.d3d11})

NextScen ==
  \/ WinMain
  \/ HostFrame
  \/ HostEndFrame
  \/ HostQuit
  \/ PlayEOF
  \/ PlayPresent
  \/ play_init_resource
  \/ play_destroy_resource
  \/ play_init_resource_view
  \/ play_destroy_resource_view
  \/ play_init_pipeline
  \/ play_bind_pipeline

SpecScen == InitScen /\ [][NextScen]_vars

(***************************************************************************)
(* Textures with initial data: traces of an application that creates 2D    *)
(* textures of several layer and level counts, on Direct3D 11 and OpenGL.  *)
(***************************************************************************)
LevelCounts == {0, 1, 2}
LayerCounts == {1, 2}

OpInitTextureData(levels, layers) ==
  << [ k |-> "init_resource", h |-> H2,
       desc |-> [ type |-> resource_type.texture_2d, width |-> 4, height |-> 1,
                  depth_or_layers |-> layers, levels |-> levels,
                  format |-> format.r8_unorm ],
       state |-> 0,
       init |-> [null |-> FALSE, fill |-> 7, row_pitch |-> 4, slice_pitch |-> 4] ] >>

DataOps == { OpInitTextureData(levels, layers) : levels \in LevelCounts, layers \in LayerCounts }

InitData == InitWith(DataOps, Apis)

NextData ==
  \/ WinMain
  \/ HostFrame
  \/ HostEndFrame
  \/ HostQuit
  \/ PlayEOF
  \/ PlayOther
  \/ play_init_resource

SpecData == InitData /\ [][NextData]_vars

\* every tag the replayer meets in these traces has its handler above
InScopeData ==
  pc = "play" /\ ~TagCur.bad =>
    CurTag \in NoPayload \/ CurTag \notin Handled \/ CurTag = addon_event.init_resource

(***************************************************************************)
(* Descriptor updates: traces of an application that creates a sampler, a  *)
(* buffer and a view and then updates descriptor tables or pushes          *)
(* descriptors that name them.                                             *)
(***************************************************************************)
DescSetup == OpInitSampler \o OpInitBuffer \o OpInitView

\* one descriptor_table_update of the application
Update(table, type, count, descriptors, past) ==
  [ table |-> table, binding |-> 1, array_offset |-> 0, count |-> count,
    type |-> type, descriptors |-> descriptors, past |-> past ]

SamplerAndViewPairs ==
  Update(Null, descriptor_type.sampler_with_resource_view, 2, <<H1, H1, H2, H1>>, Hnd(9))
BufferRange ==
  Update(H1, descriptor_type.constant_buffer, 1, <<H1, Hnd(4), Hnd(12)>>, Hnd(9))
OneSampler == Update(H1, descriptor_type.sampler, 1, <<H1>>, Hnd(9))
Views(past) == Update(H2, descriptor_type.shader_resource_view, 2, <<H1, H2>>, past)
NoViews(past) == Update(H2, descriptor_type.unordered_access_view, 0, <<>>, past)

OpPush(update) ==
  << [ k |-> "push_descriptors", stages |-> 1, layout |-> H1, param_index |-> 0,
       update |-> [update EXCEPT !.table = Null] ] >>
OpUpdateTables(updates) == << [k |-> "update_descriptor_tables", updates |-> updates] >>

\* what the application's memory may hold behind an array of descriptors
Pasts == { Null, Hnd(9) }

DescOps ==
  { DescSetup,
    OpPush(SamplerAndViewPairs), OpPush(BufferRange),
    OpUpdateTables(<<OneSampler>>),
    OpUpdateTables(<<BufferRange, Views(Null)>>) }
  \cup { OpUpdateTables(<<NoViews(p)>>) : p \in Pasts }

InitDesc == InitWith(DescOps, {device_api.d3d11})

NextDesc ==
  \/ WinMain
  \/ HostFrame
  \/ HostEndFrame
  \/ HostQuit
  \/ PlayEOF
  \/ PlayOther
  \/ play_init_sampler
  \/ play_init_resource
  \/ play_init_resource_view
  \/ play_init_swapchain
  \/ play_update_descriptor_sets
  \/ play_push_descriptors

SpecDesc == InitDesc /\ [][NextDesc]_vars

\* every tag the replayer meets in these traces has its handler above
InScopeDesc ==
  pc = "play" /\ ~TagCur.bad =>
    CurTag \in NoPayload \/ CurTag \notin Handled \/
    CurTag \in { addon_event[n] : n \in
      { "init_swapchain", "init_sampler", "init_resource", "init_resource_view",
        "update_descriptor_tables", "push_descriptors" } }

(***************************************************************************)
(* The capture add-on under several application threads.                   *)
(***************************************************************************)
Threads == {1, 2}

\* callbacks whose return value lets the add-on suppress the call
Suppressing ==
  { "copy_descriptor_tables", "update_descriptor_tables", "update_buffer_region",
    "update_texture_region", "draw", "draw_indexed", "dispatch",
    "draw_or_dispatch_indirect", "copy_resource", "copy_buffer_region",
    "copy_buffer_to_texture", "copy_texture_region", "copy_texture_to_buffer",
    "resolve_texture_region", "clear_depth_stencil_view", "clear_render_target_view",
    "clear_unordered_access_view_uint", "clear_unordered_access_view_float",
    "generate_mipmaps", "begin_query", "end_query", "copy_query_heap_results" }
\* callbacks that return without taking the lock
LockFree == { "begin_query", "end_query", "copy_query_heap_results" }

\* a callback that reports the call as handled
ReturnsHandled(e) == IF e.k \in Suppressing THEN "true" ELSE "void"
\* the value callback e returns, as a string
Returns(e) == IF e.k \in Suppressing THEN "false" ELSE "void"

\* a lock that excludes nobody
CanLockAlways == TRUE
\* const std::unique_lock<std::shared_mutex> lock(s_mutex) can be constructed
CanLock == s_mutex = NoThread

\* the variables of the playback application
Replayer ==
  <<pos, pc, api, ndebug, shift_wraps, ret, frames, exit_code, regVars, devVars, hist, marks, startup>>

NoEvent == [k |-> "none"]
Idle(n, last, result) ==
  [st |-> "idle", e |-> NoEvent, chunks |-> <<>>, n |-> n, last |-> last, result |-> result]

RecEvents ==
  { OpInitBuffer[1], OpDraw[1], OpMapBuffer[1], OpMapBuffer[2], OpCopyResource[1],
    OpCopyBufferRegion[1], OpClear[1], OpPresent[1],
    [k |-> "begin_query"], [k |-> "end_query"], [k |-> "copy_query_heap_results"] }

Callbacks == thr[1].n + thr[2].n + Cardinality({t \in Threads : thr[t].st # "idle"})

\* the application calls into the API on thread t and the callback is entered;
\* it unmaps only what it has mapped, on one thread
EnterOf(t, events) ==
  /\ thr[t].st = "idle"
  /\ \E e \in events :
       /\ Mapped(mappings, e)
       /\ e.k = "unmap_buffer_region" =>
            \A u \in Threads : thr[u].e.k # "unmap_buffer_region"
       /\ thr' = [thr EXCEPT ![t] = [@ EXCEPT !.st = "entered", !.e = e]]
  /\ UNCHANGED <<Replayer, file, s_mutex, order, mappings, index, devices>>

Enter(t) == Callbacks < MaxCallbacks /\ EnterOf(t, RecEvents)

\* a callback that goes on without waiting for the lock
LockUnguarded(t) ==
  /\ thr[t].st = "entered"
  /\ thr[t].e.k \notin LockFree
  /\ s_mutex' = t
  /\ LET chunks == Written(thr[t].e, mappings)
     IN  /\ order' = Append(order, [t |-> t, e |-> thr[t].e, bytes |-> Flat(chunks)])
         /\ thr' = [thr EXCEPT ![t] = [@ EXCEPT !.st = "locked", !.chunks = chunks]]
  /\ UNCHANGED <<Replayer, file, mappings, index, devices>>

\* the lock is taken; trace_data is about to be written
Lock(t) ==
  /\ thr[t].st = "entered"
  /\ thr[t].e.k \notin LockFree
  /\ CanLock
  /\ s_mutex' = t
  /\ LET chunks == Written(thr[t].e, mappings)
     IN  /\ order' = Append(order, [t |-> t, e |-> thr[t].e, bytes |-> Flat(chunks)])
         /\ thr' = [thr EXCEPT ![t] = [@ EXCEPT !.st = "locked", !.chunks = chunks]]
  /\ UNCHANGED <<Replayer, file, mappings, index, devices>>

\* one trace_data.write(...)
Write(t) ==
  /\ thr[t].st = "locked"
  /\ thr[t].chunks # <<>>
  /\ file' = file \o Head(thr[t].chunks)
  /\ thr' = [thr EXCEPT ![t] = [@ EXCEPT !.chunks = Tail(@)]]
  /\ UNCHANGED <<Replayer, s_mutex, order, mappings, index, devices>>

\* a callback that returns with the lock still held
UnlockForgotten(t) ==
  /\ thr[t].st = "locked"
  /\ thr[t].chunks = <<>>
  /\ mappings' = MappingsAfter(thr[t].e, mappings)
  /\ thr' = [thr EXCEPT ![t] = Idle(@.n + 1, thr[t].e, Returns(thr[t].e))]
  /\ UNCHANGED <<Replayer, file, s_mutex, order, index, devices>>

\* the end of the callback: the mappings vector is updated, the lock released
Unlock(t) ==
  /\ thr[t].st = "locked"
  /\ thr[t].chunks = <<>>
  /\ mappings' = MappingsAfter(thr[t].e, mappings)
  /\ s_mutex' = NoThread
  /\ thr' = [thr EXCEPT ![t] = Idle(@.n + 1, thr[t].e, Returns(thr[t].e))]
  /\ UNCHANGED <<Replayer, file, order, index, devices>>

\* a callback whose body is return false
ReturnFalse(t) ==
  /\ thr[t].st = "entered"
  /\ thr[t].e.k \in LockFree
  /\ thr' = [thr EXCEPT ![t] = Idle(@.n + 1, thr[t].e, Returns(thr[t].e))]
  /\ UNCHANGED <<Replayer, file, s_mutex, order, mappings, index, devices>>

\* the recorder after the first device was initialised, in a build of wraps
InitRecBuild(wraps) ==
  /\ \E a \in Apis : file = Flat(device_data(a)) /\ devices = <<Device(a, TraceName(1, 1), TRUE)>>
  /\ s_mutex = NoThread
  /\ thr = [t \in Threads |-> Idle(0, NoEvent, "void")]
  /\ order = <<>>
  /\ mappings = <<>>
  /\ marks = <<12>>
  /\ index = 1
  /\ startup = "none"
  /\ ndebug \in BOOLEAN
  /\ shift_wraps \in wraps
  /\ pos = 0
  /\ pc = "start"
  /\ api = 0
  /\ ret = "none"
  /\ frames = 0
  /\ exit_code = -1
  /\ s_samplers = EmptyMap
  /\ s_resources = EmptyMap
  /\ s_resource_views = EmptyMap
  /\ s_pipelines = EmptyMap
  /\ s_pipeline_layouts = EmptyMap
  /\ s_descriptor_tables = EmptyMap
  /\ calls = <<>>
  /\ live = {}
  /\ next_live = 0
  /\ hist = <<>>

\* (no callback of these runs shifts by 32 or more)
InitRec == InitRecBuild({FALSE})

NextRec ==
  \E t \in Threads :
    \/ Enter(t)
    \/ Lock(t)
    \/ Write(t)
    \/ Unlock(t)
    \/ ReturnFalse(t)

SpecRec == InitRec /\ [][NextRec]_vars

\* the callbacks of the runs in which progress is checked: one that writes a
\* single field, a map and its unmap, and one that takes no lock
LockEvents == { OpPresent[1], OpMapBuffer[1], OpMapBuffer[2], [k |-> "begin_query"] }
EnterAny(t) == Callbacks < MaxCallbacks /\ EnterOf(t, LockEvents)

NextLock ==
  \E t \in Threads :
    \/ EnterAny(t)
    \/ Lock(t)
    \/ Write(t)
    \/ Unlock(t)
    \/ ReturnFalse(t)

\* the scheduler lets every thread that can take a step take one, and the
\* lock is granted to a thread that keeps waiting for it
FairRec ==
  \A t \in Threads :
    /\ WF_vars(Lock(t))
    /\ WF_vars(Write(t))
    /\ WF_vars(Unlock(t))
    /\ WF_vars(ReturnFalse(t))

SpecRecFair == InitRec /\ [][NextLock]_vars /\ FairRec

(***************************************************************************)
(* Devices: on_init_device constructs a device_data object per device, on  *)
(* the thread of the application that creates the device.  The constructor *)
(* takes no lock; its accesses to the static index are steps of their own. *)
(***************************************************************************)
MaxDevices == 2         \* devices the application creates

\* device constructions begun
Started ==
  Len(devices) + Cardinality({t \in Threads : thr[t].st \in {"loaded", "stored"}})
\* capture callbacks that have run
Ran == thr[1].n + thr[2].n

Constructing(st, v, n, result) == [st |-> st, v |-> v, n |-> n, result |-> result]
\* the process of the application has ended
Dead == [t \in Threads |-> [thr[t] EXCEPT !.st = "dead"]]

recOther == <<file, s_mutex, order, mappings>>

\* ++index, the read
InitDeviceLoad(t) ==
  /\ thr[t].st = "idle"
  /\ Started < MaxDevices
  /\ thr' = [thr EXCEPT ![t] = [@ EXCEPT !.st = "loaded", !.v = index]]
  /\ UNCHANGED <<Replayer, recOther, index, devices>>

\* ++index, the write
InitDeviceStore(t) ==
  /\ thr[t].st = "loaded"
  /\ index' = thr[t].v + 1
  /\ thr' = [thr EXCEPT ![t] = [@ EXCEPT !.st = "stored", !.v = @ + 1]]
  /\ UNCHANGED <<Replayer, recOther, devices>>

\* the rest of the constructor: the name, fopen_s, assert(is_open()), the
\* header.  fwrite on a null stream either ends the process or returns.
InitDeviceOpen(t) ==
  /\ thr[t].st = "stored"
  /\ \E a \in Apis, open \in BOOLEAN, crash \in BOOLEAN :
       LET d == Device(a, TraceName(thr[t].v, index), open)
       IN  IF ~open /\ ~ndebug
           THEN /\ thr' = Dead
                /\ devices' = Append(devices, [d EXCEPT !.lost = 0])
           ELSE IF ~open /\ crash
           THEN /\ thr' = Dead
                /\ devices' = Append(devices, [d EXCEPT !.lost = 1])
           ELSE /\ thr' = [thr EXCEPT ![t] = [@ EXCEPT !.st = "idle"]]
                /\ devices' = Append(devices, d)
  /\ UNCHANGED <<Replayer, recOther, index>>

\* a capture callback of device i, from the lock to the return
DeviceCallback(t) ==
  /\ thr[t].st = "idle"
  /\ Ran < MaxCallbacks
  /\ s_mutex = NoThread
  /\ \E i \in DOMAIN devices, e \in {OpDraw[1]}, crash \in BOOLEAN :
       LET chunks == Written(e, mappings)
       IN  IF devices[i].open
           THEN /\ devices' = [devices EXCEPT ![i].written = @ \o Flat(chunks)]
                /\ thr' = [thr EXCEPT ![t] = [@ EXCEPT !.n = @ + 1, !.result = Returns(e)]]
           ELSE IF crash
           THEN /\ devices' = [devices EXCEPT ![i].lost = @ + 1]
                /\ thr' = Dead
           ELSE /\ devices' = [devices EXCEPT ![i].lost = @ + Len(chunks)]
                /\ thr' = [thr EXCEPT ![t] = [@ EXCEPT !.n = @ + 1, !.result = Returns(e)]]
  /\ UNCHANGED <<Replayer, recOther, index>>

InitDev ==
  /\ file = <<>>
  /\ order = <<>>
  /\ marks = <<>>
  /\ s_mutex = NoThread
  /\ mappings = <<>>
  /\ index = 0
  /\ devices = <<>>
  /\ thr = [t \in Threads |-> Constructing("idle", 0, 0, "none")]
  /\ NotStarted

NextDev ==
  \E t \in Threads :
    \/ InitDeviceLoad(t)
    \/ InitDeviceStore(t)
    \/ InitDeviceOpen(t)
    \/ DeviceCallback(t)

SpecDev == InitDev /\ [][NextDev]_vars

\* C14: the k-th device initialised writes api_trace_log.bin if k is 1 and
\* api_trace_log_k.bin otherwise, and no two devices have the same file name,
\* whichever threads initialise them.
C14_DistinctTraceNames ==
  /\ \A k \in DOMAIN devices : devices[k].name = TraceName(k, k)
  /\ \A i, j \in DOMAIN devices : i # j => devices[i].name # devices[j].name

\* C19: a device whose trace file could not be opened has had no write made
\* on it, by the constructor or by a callback, and the application runs on:
\* every callback has returned without suppressing the call.
C19_UnopenedIsInert ==
  /\ \A i \in DOMAIN devices : ~devices[i].open => devices[i].lost = 0
  /\ (\E i \in DOMAIN devices : ~devices[i].open) =>
       \A t \in Threads : thr[t].st # "dead" /\ thr[t].result \in {"none", "false", "void"}

(***************************************************************************)
(* Re-entrant texture maps: the application maps and unmaps subresources   *)
(* of one texture; each callback runs from its lock to its return.         *)
(***************************************************************************)
MaxMaps == 3            \* map and unmap calls of the application

\* the pointers Map hands out
Pointers == {9, 10}
TexMaps ==
  { [OpMapTexture[1] EXCEPT !.subresource = s, !.data = p] : s \in {0, 1}, p \in Pointers }
TexUnmaps == { [OpMapTexture[2] EXCEPT !.subresource = s] : s \in {0, 1} }

\* a callback of the one device, on one thread
TexCallback(e) ==
  /\ Len(order) < MaxMaps
  /\ LET chunks == Written(e, mappings)
     IN  /\ file' = file \o Flat(chunks)
         /\ order' = Append(order, [t |-> 1, e |-> e, bytes |-> Flat(chunks)])
  /\ mappings' = MappingsAfter(e, mappings)
  /\ thr' = [thr EXCEPT ![1] = Idle(@.n + 1, e, Returns(e))]
  /\ UNCHANGED <<Replayer, s_mutex, index, devices>>

MapTexture == \E e \in TexMaps : CanLock /\ TexCallback(e)
\* the application unmaps what it has mapped
UnmapTexture == \E e \in TexUnmaps : CanLock /\ Mapped(mappings, e) /\ TexCallback(e)

NextTex ==
  \/ MapTexture
  \/ UnmapTexture

SpecTex == InitRec /\ [][NextTex]_vars

(***************************************************************************)
(* Texture sizes: the application updates textures of several shapes while *)
(* it maps and unmaps others, so that calc_texture_size runs with the same *)
(* arguments at different states of the recorder.                          *)
(***************************************************************************)
Box1 == [ null |-> FALSE, left |-> 0, top |-> 0, front |-> 0,
          right |-> 2, bottom |-> 2, back |-> 1 ]
\* a texture of each type, with its level count known or reported as 0
SizeDescs ==
  { [ type |-> ty, width |-> 8, height |-> 4, depth_or_layers |-> 3,
      levels |-> l, format |-> format.r8_unorm ] :
      ty \in {resource_type.texture_1d, resource_type.texture_2d, resource_type.texture_3d},
      l \in {0, 2} }
\* subresource 33 of a texture of 2 levels is level 1; of one whose level
\* count is 0 it is level 33
SizeUpdate(d, b) ==
  [ k |-> "update_texture_region", res |-> H2, subresource |-> 33, box |-> b,
    row_pitch |-> 8, slice_pitch |-> 32, data |-> 13, desc |-> d ]
SizeUpdates ==
  { SizeUpdate(d, NoBox) : d \in SizeDescs }
    \cup { SizeUpdate(d, Box1) : d \in {x \in SizeDescs : x.type = resource_type.texture_2d
                                                         /\ x.levels = 2} }

UpdateTexture == \E e \in SizeUpdates : CanLock /\ TexCallback(e)

NextSize ==
  \/ UpdateTexture
  \/ MapTexture
  \/ UnmapTexture

InitSize == InitRecBuild(BOOLEAN)

SpecSize == InitSize /\ [][NextSize]_vars

(***************************************************************************)
(* Buffer maps: the application maps regions of two buffers, for reading   *)
(* or for writing, and unmaps them.                                        *)
(***************************************************************************)
\* a map of the rest of the buffer from an offset, given as its number of
\* bytes or as UINT64_MAX
BufMapOf(r, o, whole, a) ==
  [ k |-> "map_buffer_region", res |-> r, offset |-> o,
    size |-> IF whole THEN UINT64_MAX ELSE BufferDesc.size - o,
    access |-> a, data |-> 5, desc |-> BufferDesc ]
BufMaps ==
  { BufMapOf(r, o, whole, a) :
      r \in {H1, H2}, o \in {0, 1}, whole \in BOOLEAN,
      a \in {map_access.read_only, map_access.write_only} }
BufUnmaps == { [OpMapBuffer[2] EXCEPT !.res = r] : r \in {H1, H2} }

MapBuffer == \E e \in BufMaps : CanLock /\ TexCallback(e)
\* the application unmaps what it has mapped
UnmapBuffer == \E e \in BufUnmaps : CanLock /\ Mapped(mappings, e) /\ TexCallback(e)

NextBuf ==
  \/ MapBuffer
  \/ UnmapBuffer

SpecBuf == InitRec /\ [][NextBuf]_vars

(***************************************************************************)
(* Concurrent maps: two threads of the application map and unmap a buffer  *)
(* and a texture subresource.                                              *)
(***************************************************************************)
ConcEvents == { OpMapBuffer[1], OpMapBuffer[2], OpMapTexture[1], OpMapTexture[2] }

\* e and m are about the same buffer or the same texture subresource
SameRegion(e, m) ==
  /\ m.resource = e.res
  /\ e.k = "unmap_texture_region" => m.subresource = e.subresource
\* the maps of the region of e that are still open
RECURSIVE OpenMaps(_, _)
OpenMaps(e, maps) ==
  IF maps = <<>> THEN 0
  ELSE (IF SameRegion(e, Head(maps)) THEN Head(maps).ref ELSE 0) + OpenMaps(e, Tail(maps))
\* the unmap callbacks of the region of e that have not returned
UnmapsInFlight(e) == Cardinality({ u \in Threads : thr[u].e = e })

\* the application maps, or unmaps a region that it has mapped and for which
\* it has no unmap call open already
EnterMap(t) ==
  /\ Callbacks < MaxMaps
  /\ thr[t].st = "idle"
  /\ \E e \in ConcEvents :
       /\ e.k \in {"unmap_buffer_region", "unmap_texture_region"} =>
            OpenMaps(e, mappings) > UnmapsInFlight(e)
       /\ thr' = [thr EXCEPT ![t] = [@ EXCEPT !.st = "entered", !.e = e]]
  /\ UNCHANGED <<Replayer, file, s_mutex, order, mappings, index, devices>>

NextConc ==
  \E t \in Threads :
    \/ EnterMap(t)
    \/ Lock(t)
    \/ Write(t)
    \/ Unlock(t)

SpecConc == InitRec /\ [][NextConc]_vars

\* the records of one (resource, subresource, pointer)
SameMapping(m, n) ==
  m.resource = n.resource /\ m.subresource = n.subresource /\ m.data = n.data

\* C15: the mapping list never holds two records with the same resource,
\* subresource and mapped pointer: a texture map callback that finds such a
\* record increments its reference count and adds none.
C15_NoDuplicateMapping ==
  \A i, j \in DOMAIN mappings : i # j => ~SameMapping(mappings[i], mappings[j])

(***************************************************************************)
(* Properties of the playback of a recorded trace.                         *)
(***************************************************************************)
Last(s) == s[Len(s)]
\* the file holds every byte the recorder wrote
Untruncated == Len(file) = Last(marks)
\* a handler of play_frame returns in this step
Applied == pc = "play" /\ Len(hist') = Len(hist) + 1
\* applied event i was decoded at the place of recorded event i, in full
Aligned(i) ==
  /\ i <= Len(order)
  /\ hist[i].at = marks[i]
  /\ hist[i].k = order[i].e.k
  /\ ~hist[i].bad

\* C1: every handler consumes exactly the bytes the recorder wrote for its
\* event, so whenever play_frame reads a tag from a complete trace, having
\* applied k events, it reads at the first byte of recorded event k+1.
C1_NextTagIsNextEvent ==
  (Untruncated /\ pc = "play") =>
    (Len(hist) < Len(marks) /\ pos = marks[Len(hist) + 1])

\* C5: play_frame applies the event whose tag is at the read position and
\* only moves forward; at a present tag it returns true having read the four
\* bytes of the tag and nothing more, with no call and no registry change;
\* it returns false only when the read of a tag fails.
C5_PlayFrameStopsAtPresent ==
  [][ pc = "play" =>
        /\ AtTag("present") =>
             /\ pc' = "after" /\ ret' = "true"
             /\ pos' = pos + 4
             /\ calls' = calls /\ regVars' = regVars /\ live' = live
        /\ pc' = "after" =>
             IF TagCur.bad THEN ret' = "false" /\ calls' = calls
             ELSE ret' = "true" /\ AtTag("present")
        /\ Len(hist') > Len(hist) =>
             /\ hist' = Append(hist, Last(hist'))
             /\ Last(hist').at = pos
             /\ addon_event[Last(hist').k] = CurTag
             /\ pos' >= pos + 4 ]_vars

\* play_frame has returned true at a present tag that is followed by an event
C5_Witness ==
  /\ pc = "after" /\ ret = "true"
  /\ hist # <<>> /\ Last(hist).k = "present"
  /\ pos = Last(hist).at + 4
  /\ pos < Len(file)

\* C6: once play_frame has returned false, the host loop performs no further
\* play_frame invocation, barrier, effect-runtime present or application
\* present.
C6_LoopEndsWithTrace ==
  [][ (ret = "false" /\ pc \in {"after", "loop"}) =>
        (frames' = frames /\ calls' \in {calls, Append(calls, Call("destroy_effect_runtime", <<>>))})
    ]_vars

\* C7: a handler that met a read returning fewer bytes than requested issues
\* no live call and ends the replay loop.
C7_ShortReadStopsReplay ==
  [][ (Applied /\ Last(hist').bad) => (calls' = calls /\ pc' # "play") ]_vars

\* the position of each handle argument in a call of the command list
HandleArgs(c) ==
  CASE c.op = "barrier" -> c.args[2]
    [] c.op = "begin_render_pass" ->
         [i \in 1..Len(c.args[2]) |-> c.args[2][i].view]
         \o (IF c.args[3].null THEN <<>> ELSE <<c.args[3].view>>)
    [] c.op = "bind_pipeline" -> <<c.args[2]>>
    [] c.op = "copy_resource" -> <<c.args[1], c.args[2]>>
    [] c.op = "copy_buffer_region" -> <<c.args[1], c.args[3]>>
    [] c.op = "clear_depth_stencil_view" -> <<c.args[1]>>
    [] OTHER -> <<>>
\* the registry the handles of event kind k are looked up in
RegistryOf(k) ==
  CASE k \in {"barrier", "copy_resource", "copy_buffer_region"} -> s_resources
    [] k \in {"begin_render_pass", "clear_depth_stencil_view"} -> s_resource_views
    [] k = "bind_pipeline" -> s_pipelines
    [] OTHER -> EmptyMap
CommandKinds ==
  { "barrier", "begin_render_pass", "end_render_pass", "bind_pipeline", "draw",
    "copy_resource", "copy_buffer_region", "clear_depth_stencil_view" }
\* origin handle h was never created or is destroyed
Unmapped(m, h) == h \notin DOMAIN m \/ m[h] = Null

\* C10: a command-list event is applied by exactly one call of its kind, with
\* the null handle wherever the origin handle has no mapping, and play_frame
\* goes on to the next tag; a command event that is complete in the file is
\* never the end of the replay.
C10_NullForUnmapped ==
  [][ /\ (Applied /\ Last(hist').k \in CommandKinds) =>
           LET e == Last(hist')
               c == Last(calls')
           IN  /\ calls' = Append(calls, c)
               /\ c.op = e.k
               /\ Len(HandleArgs(c)) = Len(e.d.hs)
               /\ \A j \in 1..Len(e.d.hs) :
                    Unmapped(RegistryOf(e.k), e.d.hs[j]) => HandleArgs(c)[j] = Null
               /\ pc' = "play"
      /\ ( /\ pc = "play" /\ Untruncated
           /\ Len(hist) < Len(order) /\ pos = marks[Len(hist) + 1]
           /\ order[Len(hist) + 1].e.k \in CommandKinds ) =>
           (Applied /\ pc' = "play") ]_vars

\* copy_resource was applied with a live source and a destination that was
\* never created
C10_Witness ==
  /\ pc = "play"
  /\ hist # <<>> /\ Last(hist).k = "copy_resource"
  /\ Unmapped(s_resources, Last(hist).d.hs[2])
  /\ Last(calls).op = "copy_resource"
  /\ Last(calls).args[1] # Null /\ Last(calls).args[2] = Null

\* the calls made in this step
NewCalls == SubSeq(calls', Len(calls) + 1, Len(calls'))
\* the live handle origin handle h stands for, null where there is none
Mapping(m, h) == IF Unmapped(m, h) THEN Null ELSE m[h]

MapKinds == {"map_buffer_region", "map_texture_region"}
UnmapKinds == {"unmap_buffer_region", "unmap_texture_region"}
MapOf(k) == IF k = "unmap_buffer_region" THEN "map_buffer_region" ELSE "map_texture_region"
\* e is a complete unmap event that carries data for a resource that is mapped
\* to a live one
WritingUnmap(e) ==
  /\ e.k \in UnmapKinds
  /\ ~e.bad
  /\ e.d.access # map_access.read_only
  /\ ~Unmapped(s_resources, e.d.h)
\* the payload of the unmap event applied in this step, as it is in the file
Payload(e) == SubSeq(file, pos' - e.d.size + 1, pos')
\* this step made the live map of the resource of e and nothing else
MapOnly(e) ==
  /\ Len(NewCalls) = 1
  /\ NewCalls[1].op = MapOf(e.k)
  /\ NewCalls[1].args[1] = s_resources[e.d.h]
\* this step made the live map, the copy of the payload and the live unmap
MapCopyUnmap(e) ==
  /\ Len(NewCalls) = 3
  /\ NewCalls[1].op = MapOf(e.k)
  /\ NewCalls[1].args[1] = s_resources[e.d.h]
  /\ NewCalls[2] = Call("memcpy", <<Payload(e)>>)
  /\ NewCalls[3].op = e.k
  /\ NewCalls[3].args[1] = s_resources[e.d.h]

\* C4 as stated: a map event makes no live call; an unmap event that carries
\* data for a mapped resource makes the live map, one copy of the payload and
\* the live unmap, and no other call.
C4_MapCopyUnmapAlways ==
  [][ Applied =>
        /\ Last(hist').k \in MapKinds => calls' = calls
        /\ WritingUnmap(Last(hist')) => MapCopyUnmap(Last(hist')) ]_vars

\* C4, amended: a map event makes no live call; an unmap event that carries
\* data for a mapped resource makes the live map and, when that map succeeds,
\* one copy of the payload and the live unmap, and no other call; when the
\* live map fails it makes no further call.
C4_MapCopyUnmapIfMapped ==
  [][ Applied =>
        /\ Last(hist').k \in MapKinds => calls' = calls
        /\ WritingUnmap(Last(hist')) =>
             IF Last(NewCalls[1].args) THEN MapCopyUnmap(Last(hist'))
             ELSE MapOnly(Last(hist')) ]_vars

\* the buffer was created, mapped and unmapped: the replay of the unmap event
\* mapped the live buffer, copied the two recorded bytes and unmapped
C4_Witness ==
  /\ hist # <<>> /\ Last(hist).k = "unmap_buffer_region"
  /\ Len(hist) >= 2 /\ hist[Len(hist) - 1].k = "map_buffer_region"
  /\ hist[Len(hist) - 1].c0 = Last(hist).c0
  /\ Len(calls) = Last(hist).c0 + 3
  /\ calls[Len(calls) - 2].op = "map_buffer_region"
  /\ calls[Len(calls) - 2].args[1] # Null
  /\ calls[Len(calls) - 1] = Call("memcpy", << <<5, 6>> >>)
  /\ calls[Len(calls)].op = "unmap_buffer_region"

UpdateKinds == {"update_buffer_region", "update_texture_region"}

\* C11: an unmap or update event that is complete in the file and whose
\* resource has no non-null live mapping is applied without any live call,
\* play_frame goes on, and in a complete trace the next tag is read at the
\* first byte of the next recorded event: the payload was consumed in full.
C11_SkippedPayloadConsumed ==
  [][ ( /\ Applied
        /\ Last(hist').k \in UnmapKinds \cup UpdateKinds
        /\ ~Last(hist').bad
        /\ Unmapped(s_resources, Last(hist').d.h) ) =>
        /\ calls' = calls
        /\ pc' = "play"
        /\ (Untruncated /\ Len(hist) + 2 <= Len(marks) /\ pos = marks[Len(hist) + 1]) =>
             /\ order[Len(hist) + 1].e.k = Last(hist').k
             /\ pos' = marks[Len(hist) + 2] ]_vars

\* the create of a texture failed and the texture was then updated with two
\* bytes: the update event was read to its end and made no live call
C11_Witness ==
  /\ pc = "play"
  /\ Len(hist) = 2
  /\ hist[1].k = "init_resource" /\ ~hist[1].d.ok
  /\ hist[2].k = "update_texture_region" /\ hist[2].d.h = hist[1].d.h
  /\ hist[2].d.data = <<13, 14>>
  /\ s_resources[hist[2].d.h] = Null
  /\ Len(calls) = hist[2].c0
  /\ pos = marks[3] /\ pos = Len(file)

(***************************************************************************)
(* Properties of the start of the playback.                                *)
(***************************************************************************)
\* WinMain got as far as reading the file in this step
ReadsHeader == pc = "start" /\ startup' \notin {"module", "window", "open"}
\* the file is a trace of the recorder that still has its whole header
Recorded == devices # <<>> /\ Len(file) >= 12
\* the file has eight first bytes and they are not the magic
WrongMagic == Len(file) >= 8 /\ SubSeq(file, 1, 8) # MAGIC

\* C12: a trace of the recorder starts with the eight bytes of the magic and
\* the four bytes of the backend of its device, and its first event starts
\* after them; WinMain, once it has opened such a trace, does not reject the
\* header and holds the backend of the recording device; it returns 2 for
\* every file whose first eight bytes are not the magic, before any frame.
C12_HeaderRoundTrip ==
  /\ [](Recorded =>
          /\ SubSeq(file, 1, 8) = MAGIC
          /\ SubSeq(file, 9, 12) = U32(devices[1].api)
          /\ marks[1] = 12)
  /\ [][ ReadsHeader =>
           /\ Recorded =>
                /\ startup' \in {"ok", "backend", "runtime"}
                /\ api' = devices[1].api
                /\ pos' = 12
           /\ WrongMagic =>
                /\ pc' = "exit" /\ exit_code' = 2
                /\ calls' = <<>> /\ frames' = 0 ]_vars

\* WinMain has accepted the header of an OpenGL trace and entered its loop
C12_Witness ==
  /\ devices # <<>> /\ devices[1].api = device_api.opengl
  /\ pc = "loop" /\ startup = "ok"
  /\ api = device_api.opengl
  /\ pos = 12 /\ Len(file) > 12

\* C13: WinMain returns 2 when the trace cannot be opened or its first eight
\* bytes are not the magic, 1 when the ReShade module, the backend of the
\* trace or the effect runtime cannot be had, and 0 when, having entered its
\* loop, it is told that the window was closed, and in no other case.
C13_ExitCodes ==
  /\ startup \in {"open", "magic"} => (pc = "exit" /\ exit_code = 2)
  /\ (startup \notin {"none", "module", "window", "open"} /\ WrongMagic) =>
       (pc = "exit" /\ exit_code = 2)
  /\ startup \in {"module", "backend", "runtime"} => (pc = "exit" /\ exit_code = 1)
  /\ (pc = "exit" /\ startup = "ok") => exit_code = 0
  /\ exit_code = 0 =>
       /\ pc = "exit" /\ startup = "ok"
       /\ Last(calls) = Call("destroy_effect_runtime", <<>>)

\* the window was closed after a frame that played a draw and a present
C13_Witness ==
  /\ pc = "exit" /\ exit_code = 0
  /\ frames >= 1
  /\ Len(hist) = 2 /\ hist[2].k = "present"

\* C18: when play_frame reads a tag value it has no case for, the replay ends
\* there: no later event of the file is applied.
C18_UnknownTagIsFatal ==
  [][ (pc = "play" /\ ~TagCur.bad /\ CurTag \notin Handled) =>
        (pc' = "abort" /\ hist' = hist /\ calls' = calls) ]_vars
  /\ [][ pc = "abort" => hist' = hist ]_vars

(***************************************************************************)
(* Properties of the handle registry.                                      *)
(***************************************************************************)
Categories == {"sampler", "resource", "resource_view", "pipeline", "pipeline_layout"}
InitKind ==
  [ sampler |-> "init_sampler", resource |-> "init_resource",
    resource_view |-> "init_resource_view", pipeline |-> "init_pipeline",
    pipeline_layout |-> "init_pipeline_layout" ]
DestroyKind ==
  [ sampler |-> "destroy_sampler", resource |-> "destroy_resource",
    resource_view |-> "destroy_resource_view", pipeline |-> "destroy_pipeline",
    pipeline_layout |-> "destroy_pipeline_layout" ]
CreateOp ==
  [ sampler |-> "create_sampler", resource |-> "create_resource",
    resource_view |-> "create_resource_view", pipeline |-> "create_pipeline",
    pipeline_layout |-> "create_pipeline_layout" ]
Reg(cat) ==
  CASE cat = "sampler" -> s_samplers
    [] cat = "resource" -> s_resources
    [] cat = "resource_view" -> s_resource_views
    [] cat = "pipeline" -> s_pipelines
    [] cat = "pipeline_layout" -> s_pipeline_layouts

\* the live calls the handler of applied event i made
CallsOf(i) ==
  SubSeq(calls, hist[i].c0 + 1, IF i < Len(hist) THEN hist[i + 1].c0 ELSE Len(calls))
\* the create calls among them
Creates(cat, i) == SelectSeq(CallsOf(i), LAMBDA c : c.op = CreateOp[cat])
\* what a create call returned: success, and the handle
Succeeded(c) == c.args[Len(c.args) - 1]
Created(c) == c.args[Len(c.args)]

\* applied event i is a lifecycle event of category cat on origin handle h
OnHandle(cat, i, h) ==
  /\ hist[i].k \in {InitKind[cat], DestroyKind[cat]}
  /\ hist[i].d.h = h
\* ... and no later one is
LastOnHandle(cat, i, h) ==
  /\ OnHandle(cat, i, h)
  /\ \A j \in (i + 1)..Len(hist) : ~OnHandle(cat, j, h)
\* every create made for h in category cat succeeded
CreatesSucceed(cat, h) ==
  \A i \in 1..Len(hist) :
    OnHandle(cat, i, h) =>
      \A j \in 1..Len(Creates(cat, i)) : Succeeded(Creates(cat, i)[j])
\* h is the default framebuffer of OpenGL, which the replayer does not create
Sentinel(cat, h) ==
  /\ api = device_api.opengl
  /\ IsDefaultFramebuffer(h)
  /\ cat \in {"resource", "resource_view"}

\* after an init event the lookup of h gives the handle the create of that
\* event returned, which is not null and is a live object
LooksUpCreated(cat, i, h) ==
  /\ Len(Creates(cat, i)) = 1
  /\ Mapping(Reg(cat), h) = Created(Creates(cat, i)[1])
  /\ Mapping(Reg(cat), h) # Null
  /\ Mapping(Reg(cat), h) \in live

\* C2 as stated: where the creates succeed, the lookup of an origin handle
\* whose last lifecycle event is an init gives the non-null live handle that
\* the create of that event returned, and the lookup of one whose last
\* lifecycle event is a destroy gives null.
C2_LookupFollowsLifecycle ==
  \A cat \in Categories : \A i \in 1..Len(hist) :
    LET h == hist[i].d.h
    IN  (LastOnHandle(cat, i, h) /\ CreatesSucceed(cat, h)) =>
          IF hist[i].k = InitKind[cat] THEN LooksUpCreated(cat, i, h)
          ELSE Mapping(Reg(cat), h) = Null

\* C2, amended: the same, except for the default framebuffer of OpenGL as a
\* resource or resource view: its init makes no create and the lookup gives
\* the origin handle itself, and the destroy of such a resource leaves the
\* mapping as it was.
C2_LookupFollowsLifecycleButSentinel ==
  \A cat \in Categories : \A i \in 1..Len(hist) :
    LET h == hist[i].d.h
    IN  (LastOnHandle(cat, i, h) /\ CreatesSucceed(cat, h)) =>
          IF Sentinel(cat, h)
          THEN IF hist[i].k = InitKind[cat]
               THEN Len(Creates(cat, i)) = 0 /\ Mapping(Reg(cat), h) = h
               ELSE IF cat = "resource"
               THEN Mapping(Reg(cat), h) =
                      (IF \E j \in 1..i : hist[j].k = InitKind[cat] /\ hist[j].d.h = h
                       THEN h ELSE Null)
               ELSE Mapping(Reg(cat), h) = Null
          ELSE IF hist[i].k = InitKind[cat] THEN LooksUpCreated(cat, i, h)
          ELSE Mapping(Reg(cat), h) = Null

\* a resource was initialised twice under one origin handle and both creates
\* succeeded: the lookup gives what the second create returned
C2_Witness ==
  /\ Len(hist) = 2
  /\ hist[1].k = "init_resource" /\ hist[2].k = "init_resource"
  /\ hist[1].d.h = H1 /\ hist[2].d.h = H1
  /\ CreatesSucceed("resource", H1)
  /\ Len(Creates("resource", 1)) = 1 /\ Len(Creates("resource", 2)) = 1
  /\ Created(Creates("resource", 1)[1]) # Created(Creates("resource", 2)[1])
  /\ s_resources[H1] = Created(Creates("resource", 2)[1])

\* every live object the replayer created and did not destroy is the value of
\* some entry of its registries
NoOrphan ==
  \A l \in live : \E cat \in Categories : \E h \in DOMAIN Reg(cat) : Reg(cat)[h] = l

\* C3: an init event for an origin handle that has a non-null live mapping
\* makes the live destroy of the stale object and then the live create, and
\* no live object is left without a mapping and undestroyed.
C3_StaleDestroyedBeforeCreate ==
  [][ Applied =>
        /\ \A cat \in Categories :
             (Last(hist').k = InitKind[cat]
                /\ Mapping(Reg(cat), Last(hist').d.h) # Null
                /\ ~Sentinel(cat, Last(hist').d.h)) =>
               /\ Len(NewCalls) = 2
               /\ NewCalls[1].op = DestroyKind[cat]
               /\ NewCalls[1].args = <<Mapping(Reg(cat), Last(hist').d.h)>>
               /\ NewCalls[2].op = CreateOp[cat]
        /\ NoOrphan' ]_vars

(***************************************************************************)
(* Properties of the capture add-on.                                       *)
(***************************************************************************)
\* the bytes of the events order[1..n], one after another
RECURSIVE Events(_)
Events(n) == IF n = 0 THEN <<>> ELSE Events(n - 1) \o order[n].bytes

\* C8: the file is the header followed by the whole events in the order in
\* which their callbacks took the lock, followed, while a callback holds the
\* lock, by the bytes of its event written so far.
C8_EventsContiguous ==
  IF s_mutex = NoThread
  THEN file = SubSeq(file, 1, 12) \o Events(Len(order))
  ELSE /\ order # <<>>
       /\ Last(order).t = s_mutex
       /\ \E n \in 0..Len(Last(order).bytes) :
            file = SubSeq(file, 1, 12) \o Events(Len(order) - 1)
                   \o SubSeq(Last(order).bytes, 1, n)

\* thread 1 is in the middle of writing an event of several parts while
\* thread 2 has entered a callback that needs the lock
C8_Witness ==
  /\ s_mutex = 1
  /\ thr[1].st = "locked"
  /\ thr[1].chunks # <<>>
  /\ Len(Flat(thr[1].chunks)) < Len(Last(order).bytes) - 4
  /\ thr[2].st = "entered"
  /\ thr[2].e.k \notin LockFree

\* C9: a callback whose return value can suppress the call has returned false.
C9_NeverSuppresses ==
  \A t \in Threads :
    (thr[t].n > 0 /\ thr[t].last.k \in Suppressing) => thr[t].result = "false"

\* draw callbacks and a query callback have returned on both threads
C9_Witness ==
  /\ thr[1].n > 0 /\ thr[1].last.k = "draw"
  /\ thr[2].n > 0 /\ thr[2].last.k = "begin_query"
  /\ order # <<>>

(***************************************************************************)
(* Scenario A and failing creates.                                         *)
(***************************************************************************)
\* the trace is that of scenario A, whole
ScenarioARun ==
  /\ Untruncated
  /\ [i \in 1..Len(order) |-> order[i].e] = ScenarioA
\* the live calls that create or destroy a resource
ResourceCalls ==
  SelectSeq(calls, LAMBDA c : c.op \in {"create_resource", "destroy_resource"})
\* one create and then one destroy, of what the create returned
OneCreateOneDestroy ==
  /\ Len(ResourceCalls) = 2
  /\ ResourceCalls[1].op = "create_resource"
  /\ ResourceCalls[2].op = "destroy_resource"
  /\ ResourceCalls[2].args[1] = Created(ResourceCalls[1])
\* the first invocation of play_frame ends in this step
FirstFrameEnds == pc = "play" /\ pc' # "play" /\ frames = 1
\* play_frame has returned true from case present
ReturnedAtPresent ==
  /\ pc = "after" /\ ret = "true"
  /\ Len(hist) = 3 /\ Last(hist).k = "present"
\* the replay was ended by the assert on a create that failed
AssertedOnCreate ==
  /\ ~ndebug /\ pc = "abort"
  /\ Len(ResourceCalls) = 1
  /\ ResourceCalls[1].op = "create_resource" /\ ~Succeeded(ResourceCalls[1])

\* C16 as stated: replaying the trace of scenario A makes exactly one live
\* create_resource call and then exactly one live destroy_resource call, on
\* the handle the create returned, and play_frame returns at the present
\* event.
C16_ScenarioA ==
  [][ ScenarioARun =>
        /\ Len(ResourceCalls') <= 2
        /\ FirstFrameEnds => (ReturnedAtPresent' /\ OneCreateOneDestroy') ]_vars

\* C16, amended: the same, unless the live create fails in a build with
\* asserts, where the replay ends at the init_resource event after the one
\* create call.
C16_ScenarioAUnlessAsserted ==
  [][ ScenarioARun =>
        /\ Len(ResourceCalls') <= 2
        /\ FirstFrameEnds =>
             \/ ReturnedAtPresent' /\ OneCreateOneDestroy'
             \/ AssertedOnCreate' ]_vars

\* play_frame has returned at the present event of scenario A, the buffer
\* created and destroyed
C16_Witness ==
  /\ ScenarioARun
  /\ ReturnedAtPresent
  /\ OneCreateOneDestroy
  /\ Succeeded(ResourceCalls[1])
  /\ Created(ResourceCalls[1]) # Null

\* applied event i is an init event of category cat whose live create failed
CreateFailed(cat, i) ==
  /\ hist[i].k = InitKind[cat]
  /\ Len(Creates(cat, i)) = 1
  /\ ~Succeeded(Creates(cat, i)[1])
\* the category of the handles a command event refers to
KindCategory(k) ==
  CASE k \in {"barrier", "copy_resource", "copy_buffer_region"} -> "resource"
    [] k \in {"begin_render_pass", "clear_depth_stencil_view"} -> "resource_view"
    [] k = "bind_pipeline" -> "pipeline"
    [] OTHER -> "none"
\* the live handles applied event j handed to the device for origin handle h
\* of category cat
Received(cat, j, h) ==
  LET e == hist[j]
      cs == CallsOf(j)
  IN  CASE e.k = DestroyKind[cat] /\ e.d.h = h -> {e.d.old}
        [] e.k = InitKind[cat] /\ cat # "sampler" /\ e.d.h = h /\ e.d.created ->
             {e.d.stale}
        [] cat = "resource" /\ e.k = "init_resource_view" /\ e.d.created
             /\ e.d.res = h -> {Creates("resource_view", j)[1].args[1]}
        [] cat = "pipeline_layout" /\ e.k = "init_pipeline" /\ e.d.layout = h ->
             {Creates("pipeline", j)[1].args[1]}
        [] KindCategory(e.k) = cat ->
             { HandleArgs(Head(cs))[n] : n \in {m \in 1..Len(e.d.hs) : e.d.hs[m] = h} }
        [] OTHER -> {}

Captured(so) ==
  IF IsShader(so.type) THEN [code |-> so.code, entry_point |-> so.entry_point]
  ELSE IF IsStateBlock(so.type) THEN [desc |-> so.desc]
  ELSE [none |-> TRUE]
\* the same of entry n of the array create_pipeline was called with
Replayed(subobjects, n) ==
  IF IsShader(subobjects[n].type) \/ IsStateBlock(subobjects[n].type)
  THEN subobjects[n].data
  ELSE [none |-> TRUE]

\* applied event i is the init_pipeline event recorded as event i, and one
\* create_pipeline call was made for it with the subobjects recorded
PipelineRoundTrip(i) ==
  LET rec == order[i].e.subobjects
      cs == Creates("pipeline", i)
  IN  /\ Len(cs) = 1
      /\ cs[1].args[2] = Len(rec)
      /\ Len(cs[1].args[3]) = Len(rec)
      /\ \A n \in 1..Len(rec) :
           /\ cs[1].args[3][n].type = rec[n].type
           /\ Replayed(cs[1].args[3], n) = Captured(rec[n])

IsHostCall(c) ==
  \/ c.op \in {"update_and_present_effect_runtime", "present"}
  \/ c.op = "barrier" /\ Len(c.args) = 3
HostCalls == SelectSeq(calls, IsHostCall)
\* the i-th call of a loop whose every iteration makes its four calls in order
HostCallOfLoop(i) ==
  LET k == (i - 1) \div 4
      r == (i - 1) % 4
  IN  CASE r = 0 -> Call("barrier", <<BackBuffer(k), "present", "render_target">>)
        [] r = 1 -> Call("barrier", <<BackBuffer(k), "render_target", "present">>)
        [] r = 2 -> Call("update_and_present_effect_runtime", <<>>)
        [] r = 3 -> Call("present", <<>>)
\* iteration frames of the loop is inside play_frame or has just left it
InPlayFrame == pc \in {"play", "after"}

\* C21: every iteration of the host loop makes, once each and in this order,
\* the barrier of the back buffer to render_target, play_frame, the barrier
\* back to present, the update-and-present of the effect runtime and the
\* present of the application.
C21_FrameLoopOrder ==
  /\ [](/\ \A i \in 1..Len(HostCalls) : HostCalls[i] = HostCallOfLoop(i)
        /\ InPlayFrame => Len(HostCalls) = 4 * (frames - 1) + 1
        /\ pc = "loop" => Len(HostCalls) = 4 * frames)
  /\ [][ /\ pc = "loop" => pc' \in {"play", "exit"}
         /\ pc = "after" => pc' = "loop"
         /\ pc = "play" => pc' \in {"play", "after", "abort"} ]_vars

\* two iterations have completed, and play_frame replayed a barrier in one
C21_Witness ==
  /\ pc = "loop" /\ frames = 2
  /\ Len(HostCalls) = 8
  /\ \E i \in 1..Len(calls) : calls[i].op = "barrier" /\ ~IsHostCall(calls[i])

(***************************************************************************)
(* calc_texture_size.                                                      *)
(***************************************************************************)
\* the arguments on_update_texture_region passes to calc_texture_size
SizeInputs(e) ==
  [ type |-> e.desc.type, format |-> e.desc.format, width |-> e.desc.width,
    height |-> e.desc.height, depth_or_layers |-> e.desc.depth_or_layers,
    levels |-> e.desc.levels, subresource |-> e.subresource,
    row_pitch |-> e.row_pitch, slice_pitch |-> e.slice_pitch, box |-> e.box ]
\* the size field of a recorded update_texture_region event: it follows the
\* tag, the resource, the subresource, the box and the two pitches
SizeWritten(o) ==
  LET at == 4 + 8 + 4 + 1 + (IF o.e.box.null THEN 0 ELSE 24) + 4 + 4
  IN  Val(SubSeq(o.bytes, at + 1, at + 8))
Updates == {i \in DOMAIN order : order[i].e.k = "update_texture_region"}

Inside(t) == thr[t].st # "idle"

\* C23: every capture callback that starts returns; a callback takes the
\* recorder lock only when nobody holds it, once, and has released it when
\* it returns.
C23_CallbacksReturn ==
  /\ \A t \in Threads : Inside(t) ~> ~Inside(t)
  /\ [](\A t \in Threads : s_mutex = t <=> thr[t].st = "locked")
  /\ [][ \A t \in Threads :
           /\ (s_mutex' = t /\ s_mutex # t) =>
                (s_mutex = NoThread /\ thr[t].st = "entered")
           /\ (Inside(t) /\ ~Inside(t)') => s_mutex' # t ]_vars

\* a callback waits for the lock another callback holds
C23_Witness ==
  \E t, u \in Threads :
    /\ t # u
    /\ thr[t].st = "entered" /\ thr[t].e.k \notin LockFree
    /\ s_mutex = u /\ thr[u].chunks # <<>>

(***************************************************************************)
(* clear_depth_stencil_view through recorder and replayer.                 *)
(***************************************************************************)
\* play_frame is at the tag of recorded event i, which is whole in the file
AtRecorded(i) ==
  /\ pc = "play"
  /\ Len(hist) = i - 1
  /\ i <= Len(order)
  /\ pos = marks[i]
  /\ marks[i + 1] <= Len(file)

\* C24: a clear_depth_stencil_view event recorded with depth d and stencil s
\* is replayed as one live clear_depth_stencil_view call on the view its
\* handle is mapped to, with depth d and stencil s, and the read position
\* moves by exactly the bytes the recorder wrote for the event.
C24_ClearReplaysDepthAndStencil ==
  [][ \A i \in 1..Len(order) :
        (AtRecorded(i) /\ order[i].e.k = "clear_depth_stencil_view") =>
          /\ pc' = "play"
          /\ pos' = marks[i + 1]
          /\ calls' = Append(calls, Call("clear_depth_stencil_view",
               <<At(s_resource_views, order[i].e.dsv),
                 [null |-> FALSE, bits |-> on_clear_depth_stencil_view(order[i].e)[3]],
                 [null |-> FALSE,
                  v |-> Val(on_clear_depth_stencil_view(order[i].e)[4])]>>)) ]_vars

(***************************************************************************)
(* Descriptor updates through recorder and replayer.                       *)
(***************************************************************************)
\* the chunks of one update with each of its count descriptors, taken from
\* its own array
WholeUpdate(update) ==
  LET w == DescriptorWords(update.type)
  IN  << update.table, U32(update.binding), U32(update.array_offset),
         U32(update.count), U32(update.type) >>
      \o [ k \in 1..(IF w > 0 THEN update.count ELSE 0) |->
             Flat(SubSeq(update.descriptors, (k - 1) * w + 1, k * w)) ]

\* C25: for an update_descriptor_tables event with n updates the recorder
\* writes, after the header of update i, exactly the count descriptors of
\* update i from its own array, whatever the count, and the replayer that
\* decodes the event in place reads exactly that many for update i.
C25_EveryDescriptorWritten ==
  /\ \A i \in 1..Len(order) :
       order[i].e.k = "update_descriptor_tables" =>
         order[i].bytes =
           Flat(<< Tag("update_descriptor_tables"), U32(Len(order[i].e.updates)) >>
                \o Flat([ u \in 1..Len(order[i].e.updates) |->
                            WholeUpdate(order[i].e.updates[u]) ]))
  /\ \A j \in 1..Len(hist) :
       (Aligned(j) /\ hist[j].k = "update_descriptor_tables") =>
         /\ Len(hist[j].d.updates) = Len(order[j].e.updates)
         /\ \A u \in 1..Len(hist[j].d.updates) :
              Len(hist[j].d.updates[u].raw) = order[j].e.updates[u].count

DescKinds == {"update_descriptor_tables", "push_descriptors"}

\* the offset in the file of the header of update u of an applied event
RECURSIVE UpdateAt(_, _)
UpdateAt(h, u) ==
  IF h.k = "push_descriptors" THEN h.at + 12
  ELSE IF u = 1 THEN h.at + 8
  ELSE UpdateAt(h, u - 1) + 24
       + 8 * DescriptorWords(h.d.updates[u - 1].type) * h.d.updates[u - 1].count
\* word j of entry k (from 0) of update u of that event, as the file holds it
FileWord(h, u, k, j) ==
  LET p == UpdateAt(h, u) + 24
           + 8 * (k * DescriptorWords(h.d.updates[u].type) + j - 1)
  IN  SubSeq(file, p + 1, p + 8)

\* entry k of update u is in the decoded array where a device looks for
\* entry k of its type, remapped through the registries of this state
RemappedEntry(h, u, k) ==
  LET type == h.d.updates[u].type
      descs == h.d.updates[u].descs
  IN  CASE type = descriptor_type.sampler ->
             descs[k + 1] = At(s_samplers, FileWord(h, u, k, 1))
        [] type \in { descriptor_type.shader_resource_view,
                      descriptor_type.unordered_access_view } ->
             descs[k + 1] = At(s_resource_views, FileWord(h, u, k, 1))
        [] type = descriptor_type.sampler_with_resource_view ->
             /\ descs[2 * k + 1] = At(s_samplers, FileWord(h, u, k, 1))
             /\ descs[2 * k + 2] = At(s_resource_views, FileWord(h, u, k, 2))
        [] type = descriptor_type.constant_buffer ->
             /\ descs[3 * k + 1] = At(s_resources, FileWord(h, u, k, 1))
             /\ descs[3 * k + 2] = FileWord(h, u, k, 2)
             /\ descs[3 * k + 3] = FileWord(h, u, k, 3)
        [] OTHER -> TRUE

\* C27: when a handler of update_descriptor_tables or push_descriptors has
\* read its event in full, every descriptor of every update is remapped by
\* its type (sampler, view, sampler with view, constant buffer with offset
\* and size unchanged) and entry k sits at the position of entry k of that
\* type; push_descriptors hands that array to the device.
C27_DescriptorsRemappedByType ==
  [][ ( /\ pc = "play"
        /\ Len(hist') = Len(hist) + 1
        /\ Last(hist').k \in DescKinds
        /\ ~Last(hist').bad ) =>
        /\ \A u \in 1..Len(Last(hist').d.updates) :
             \A k \in 0..(Last(hist').d.updates[u].count - 1) :
               RemappedEntry(Last(hist'), u, k)
        /\ Last(hist').k = "push_descriptors" =>
             /\ Len(calls') = Len(calls) + 1
             /\ Last(calls').op = "push_descriptors"
             /\ Last(calls').args[4].descriptors.words = Last(hist').d.updates[1].descs
      ]_vars

\* push_descriptors was replayed with two sampler-with-view pairs, of which
\* the first sampler and both views are mapped to live objects and the second
\* sampler is not
C27_Witness ==
  /\ hist # <<>>
  /\ Last(hist).k = "push_descriptors"
  /\ ~Last(hist).bad
  /\ Last(hist).d.updates[1].type = descriptor_type.sampler_with_resource_view
  /\ Last(hist).d.updates[1].count = 2
  /\ Last(hist).d.updates[1].descs[1] \notin {Null, H1}
  /\ Last(hist).d.updates[1].descs[2] \notin {Null, H1}
  /\ Last(hist).d.updates[1].descs[3] = Null
  /\ Last(hist).d.updates[1].descs[4] = Last(hist).d.updates[1].descs[2]

\* C28: in the live update_descriptor_tables call, the descriptor array of
\* update i is the array of remapped descriptors decoded for update i.
C28_OwnArrayAttached ==
  \A j \in 1..Len(hist) :
    hist[j].k = "update_descriptor_tables" =>
      \A u \in 1..Len(hist[j].d.updates) :
        Head(CallsOf(j)).args[2][u].descriptors
          = InnerVector(u, hist[j].d.updates[u].descs)

(***************************************************************************)
(* Initial data of textures through recorder and replayer.                 *)
(***************************************************************************)
\* the subresource records on_init_resource wrote for the texture of e
RecordsWritten(e) ==
  Len(InitialDataChunks(e.desc, e.init, 0,
        (IF e.desc.levels # 0 THEN e.desc.levels ELSE 1)
        * (IF e.desc.type # resource_type.texture_3d THEN e.desc.depth_or_layers ELSE 1)))
  \div 4

\* C26: the handler of an init_resource event of a texture with initial data
\* reads as many subresource records as the recorder wrote for it, on every
\* backend and for every level count, 0 included, and so ends at the end of
\* the event.
C26_AllSubresourcesRead ==
  [][ \A i \in 1..Len(order) :
        ( /\ AtRecorded(i)
          /\ order[i].e.k = "init_resource"
          /\ order[i].e.desc.type # resource_type.buffer
          /\ ~order[i].e.init.null ) =>
          /\ Len(hist') = Len(hist) + 1
          /\ Len(Last(calls').args[2]) = RecordsWritten(order[i].e)
          /\ pos' = marks[i + 1] ]_vars

(***************************************************************************)
(* Reference counts of texture mappings.                                   *)
(***************************************************************************)
\* the callbacks of kind k for subresource s of resource r so far
Count(k, r, s) ==
  Cardinality({ i \in 1..Len(order) :
    order[i].e.k = k /\ order[i].e.res = r /\ order[i].e.subresource = s })
\* the records of (r, s) in the list, and the sum of their counts
RecordsOf(r, s) ==
  { i \in DOMAIN mappings : mappings[i].resource = r /\ mappings[i].subresource = s }
RECURSIVE RefSum(_)
RefSum(is) ==
  IF is = {} THEN 0
  ELSE LET i == CHOOSE x \in is : TRUE IN mappings[i].ref + RefSum(is \ {i})

Subresources == { <<e.res, e.subresource>> : e \in TexMaps }

\* C29: while the application unmaps only what it has mapped, every mapping
\* record has a reference count of at least 1, the counts of the records of
\* a (resource, subresource) add up to its maps minus its unmaps, no record
\* of it is left once they are equal, and a record leaves the list exactly
\* in the unmap that takes its count to 0.
C29_RefCountsBalance ==
  /\ [](/\ \A i \in DOMAIN mappings : mappings[i].ref >= 1
        /\ \A rs \in Subresources :
             /\ RefSum(RecordsOf(rs[1], rs[2]))
                  = Count("map_texture_region", rs[1], rs[2])
                    - Count("unmap_texture_region", rs[1], rs[2])
             /\ Count("map_texture_region", rs[1], rs[2])
                  = Count("unmap_texture_region", rs[1], rs[2])
                  => RecordsOf(rs[1], rs[2]) = {})
  /\ [][ Len(order') = Len(order) + 1 =>
           IF Last(order').e.k = "unmap_texture_region"
           THEN \E i \in RecordsOf(Last(order').e.res, Last(order').e.subresource) :
                  IF mappings[i].ref = 1 THEN mappings' = Erase(mappings, i)
                  ELSE mappings' = [mappings EXCEPT ![i].ref = @ - 1]
           ELSE /\ Len(mappings') >= Len(mappings)
                /\ \A i \in DOMAIN mappings : mappings'[i].ref >= mappings[i].ref
       ]_vars

\* a subresource was mapped twice at one pointer and unmapped once: its
\* record is still in the list, with count 1
C29_Witness ==
  /\ Len(order) = 3
  /\ order[3].e.k = "unmap_texture_region"
  /\ Count("map_texture_region", order[3].e.res, order[3].e.subresource) = 2
  /\ Len(mappings) = 1
  /\ mappings[1].ref = 1

(***************************************************************************)
(* Buffer maps and the unmaps that consume them.                           *)
(***************************************************************************)
BufferMaps == { i \in 1..Len(order) : order[i].e.k = "map_buffer_region" }
BufferUnmaps == { i \in 1..Len(order) : order[i].e.k = "unmap_buffer_region" }

\* unmap event u is the one the recorder writes for the region of map event m
Consumes(u, m) ==
  /\ m < u
  /\ order[m].e.res = order[u].e.res
  /\ order[u].bytes =
       Tag("unmap_buffer_region") \o order[u].e.res \o U64(order[m].e.offset)
       \o U64(MapSize(order[m].e)) \o U32(order[m].e.access)
       \o (IF order[m].e.access # map_access.read_only
           THEN Mem(order[m].e.data, MapSize(order[m].e)) ELSE <<>>)

\* record r of the list is the one pushed by map event m
RecordOf(r, m) ==
  /\ r.resource = order[m].e.res
  /\ r.offset = order[m].e.offset
  /\ r.size = MapSize(order[m].e)
  /\ r.access = order[m].e.access
  /\ r.data = order[m].e.data

\* C30: every unmap_buffer_region event written carries the offset, size and
\* access of an earlier map_buffer_region event of the same resource that no
\* other unmap has consumed, followed by the mapped bytes exactly when the
\* access is not read_only; the records left in the list are those of the
\* maps no unmap has consumed.
C30_UnmapConsumesOneMap ==
  \E f \in [BufferUnmaps -> BufferMaps] :
    /\ \A u, v \in BufferUnmaps : u # v => f[u] # f[v]
    /\ \A u \in BufferUnmaps : Consumes(u, f[u])
    /\ Len(mappings) = Cardinality(BufferMaps) - Cardinality(BufferUnmaps)
    /\ \A i \in DOMAIN mappings :
         \E m \in BufferMaps \ { f[u] : u \in BufferUnmaps } : RecordOf(mappings[i], m)

\* a buffer was mapped for writing at offset 0 and for reading at offset 1, and
\* the first unmap has written the region at offset 0 with its two bytes
C30_Witness ==
  /\ Len(order) = 3
  /\ BufferUnmaps = {3}
  /\ order[1].e.res = order[2].e.res
  /\ order[1].e.access = map_access.write_only
  /\ order[2].e.access = map_access.read_only
  /\ Len(order[3].bytes) = 34
  /\ Len(mappings) = 1
  /\ mappings[1].access = map_access.read_only

(***************************************************************************)
(* The mapping list under concurrent callbacks.                            *)
(***************************************************************************)
\* the callbacks that have taken the lock and returned, in lock order
Returned == IF s_mutex = NoThread THEN order ELSE SubSeq(order, 1, Len(order) - 1)
ReturnedOf(k) == Cardinality({ i \in 1..Len(Returned) : Returned[i].e.k = k })
\* a thread is between taking the lock and returning, where the list is used
UsesList(t) == thr[t].st = "locked"

\* C31: the mapping list is read and modified only by the one thread that
\* holds the lock, and concurrent callbacks lose no record and consume none
\* twice: the list holds what the returned maps added less what the returned
\* unmaps took.
C31_ListUnderLock ==
  /\ [](/\ \A t, u \in Threads : (UsesList(t) /\ UsesList(u)) => t = u
        /\ \A t \in Threads : UsesList(t) => s_mutex = t
        /\ OpenMaps(OpMapBuffer[2], mappings)
             = ReturnedOf("map_buffer_region") - ReturnedOf("unmap_buffer_region")
        /\ OpenMaps(OpMapTexture[2], mappings)
             = ReturnedOf("map_texture_region") - ReturnedOf("unmap_texture_region")
        /\ \A i \in DOMAIN mappings : mappings[i].ref >= 1)
  /\ [][ mappings' # mappings =>
           \E t \in Threads : s_mutex = t /\ UsesList(t) /\ ~UsesList(t)' ]_vars

\* a thread holds the lock in an unmap whose record is in the list while the
\* other thread has entered a callback of the same resource and waits
C31_Witness ==
  \E t, u \in Threads :
    /\ t # u
    /\ UsesList(t)
    /\ thr[t].e.k \in {"unmap_buffer_region", "unmap_texture_region"}
    /\ thr[u].st = "entered"
    /\ thr[u].e.res = thr[t].e.res
    /\ mappings # <<>>

(***************************************************************************)
(* The default framebuffer of OpenGL.                                      *)
(***************************************************************************)
\* the registry a resource or resource view event of kind k works on
StoredInto(k) ==
  IF k \in {"init_resource", "destroy_resource"} THEN s_resources ELSE s_resource_views

\* C32: on OpenGL the replay of an init_resource or init_resource_view event
\* of a default-framebuffer handle stores the handle as its own live handle,
\* makes no live call, and leaves the position after the whole payload.
C32_SentinelIdentity ==
  [][ \A i \in 1..MaxEvents :
        ( /\ AtRecorded(i)
          /\ api = device_api.opengl
          /\ order[i].e.k \in {"init_resource", "init_resource_view"}
          /\ order[i].e.h = DefaultFramebuffer
          /\ Len(hist') = i )
        => /\ calls' = calls
           /\ live' = live
           /\ StoredInto(order[i].e.k)'[DefaultFramebuffer] = DefaultFramebuffer
           /\ hist'[i].k = order[i].e.k
           /\ pos' = marks[i + 1] ]_vars

\* on OpenGL the default framebuffer was initialised as a resource and then
\* as a resource view, both registries hold the handle itself, and the only
\* live calls so far are those of the host loop
C32_Witness ==
  /\ api = device_api.opengl
  /\ Len(hist) = 2
  /\ hist[1].k = "init_resource" /\ hist[1].d.h = DefaultFramebuffer
  /\ hist[2].k = "init_resource_view" /\ hist[2].d.h = DefaultFramebuffer
  /\ s_resources[DefaultFramebuffer] = DefaultFramebuffer
  /\ s_resource_views[DefaultFramebuffer] = DefaultFramebuffer
  /\ calls = HostCalls
  /\ pos = marks[3]

\* C33: on OpenGL the replay of a destroy_resource or destroy_resource_view
\* event of a default-framebuffer handle makes no live call and leaves the
\* registry, and with it the identity mapping of the handle, as it was.
C33_SentinelNeverDestroyed ==
  [][ \A i \in 1..MaxEvents :
        ( /\ AtRecorded(i)
          /\ api = device_api.opengl
          /\ order[i].e.k \in {"destroy_resource", "destroy_resource_view"}
          /\ order[i].e.h = DefaultFramebuffer
          /\ Len(hist') = i )
        => /\ calls' = calls
           /\ live' = live
           /\ StoredInto(order[i].e.k)' = StoredInto(order[i].e.k)
           /\ pos' = marks[i + 1] ]_vars

(***************************************************************************)
(* The dimensions calc_texture_size multiplies by.                         *)
(***************************************************************************)
\* a dimension of the texture at a mip level: shifted right, at least 1 (a
\* dimension below 2^31 shifted by 31 or more has no bit left)
MipDimension(x, level) == IF level >= 31 THEN 1 ELSE Max(x \div (2 ^ level), 1)
\* the size of an update whose every dimension is taken at the mip level of
\* the subresource, or from the box where there is one
SizeAtMipLevel(in) ==
  LET level == IF in.levels # 0 THEN in.subresource % in.levels ELSE in.subresource
  IN  CASE in.type = resource_type.texture_1d ->
             format_row_pitch(in.format,
               IF ~in.box.null THEN BoxWidth(in.box) ELSE MipDimension(in.width, level))
        [] in.type = resource_type.texture_2d ->
             in.row_pitch *
               (IF ~in.box.null THEN BoxHeight(in.box) ELSE MipDimension(in.height, level))
        [] in.type = resource_type.texture_3d ->
             in.slice_pitch *
               (IF ~in.box.null THEN BoxDepth(in.box)
                ELSE MipDimension(in.depth_or_layers, level))
        [] OTHER -> 0

\* C34: the size calc_texture_size gives for a 1D, 2D or 3D texture is the
\* pitch times the dimension at mip level subresource % levels (subresource
\* when levels is 0), shifted right by the level and at least 1, or times
\* the extent of the box where a box is given.
C34_DimensionsAtMipLevel ==
  \A i \in Updates : SizeWritten(order[i]) = SizeAtMipLevel(SizeInputs(order[i].e))

(***************************************************************************)
(* The tags of the recorder against the cases of play_frame.               *)
(***************************************************************************)
\* the tags the callbacks of the recorder write: every trace_data.write of
\* an addon_event in api_trace_addon.cpp
RecorderTags ==
  { addon_event[n] : n \in
    { "init_swapchain", "destroy_swapchain", "init_sampler", "destroy_sampler",
      "init_resource", "destroy_resource", "init_resource_view",
      "destroy_resource_view", "init_pipeline", "destroy_pipeline",
      "init_pipeline_layout", "destroy_pipeline_layout",
      "copy_descriptor_tables", "update_descriptor_tables",
      "map_buffer_region", "unmap_buffer_region", "map_texture_region",
      "unmap_texture_region", "update_buffer_region", "update_texture_region",
      "barrier", "begin_render_pass", "end_render_pass",
      "bind_render_targets_and_depth_stencil", "bind_pipeline",
      "bind_pipeline_states", "bind_viewports", "bind_scissor_rects",
      "push_constants", "push_descriptors", "bind_descriptor_tables",
      "bind_index_buffer", "bind_vertex_buffers", "bind_stream_output_buffers",
      "draw", "draw_indexed", "dispatch", "draw_or_dispatch_indirect",
      "copy_resource", "copy_buffer_region", "copy_buffer_to_texture",
      "copy_texture_region", "copy_texture_to_buffer", "resolve_texture_region",
      "clear_depth_stencil_view", "clear_render_target_view",
      "clear_unordered_access_view_uint", "clear_unordered_access_view_float",
      "generate_mipmaps", "present" } }
\* the tag at the head of what the recorder wrote for an event
TagWritten(o) == Val(SubSeq(o.bytes, 1, 4))
\* the cases of play_frame that call a handler, or return for present
Decoding == Handled \ NoPayload

\* C35: every tag the recorder writes has a case in play_frame that decodes
\* the event, and no tag whose case only breaks is written by the recorder:
\* a recorded event is never passed over by a bare break or by the default
\* case, it goes to the handler of its own kind.
C35_WrittenTagsDecoded ==
  /\ [](/\ RecorderTags \subseteq Decoding
        /\ \A i \in DOMAIN order :
             /\ TagWritten(order[i]) = addon_event[order[i].e.k]
             /\ TagWritten(order[i]) \in RecorderTags)
  /\ [][ \A i \in 1..MaxEvents :
           AtRecorded(i) =>
             /\ CurTag = TagWritten(order[i])
             /\ CurTag \in Decoding
             /\ \/ pc' = "abort"
                \/ Len(hist') = i /\ hist'[i].k = order[i].e.k /\ hist'[i].at = marks[i] ]_vars

\* two recorded events of different kinds went through their handlers, the
\* second a present that ended the frame
C35_Witness ==
  /\ Len(order) = 2 /\ Len(hist) = 2
  /\ hist[1].k = "barrier" /\ order[1].e.k = "barrier"
  /\ hist[2].k = "present" /\ order[2].e.k = "present"
  /\ hist[1].at = marks[1] /\ hist[2].at = marks[2]
  /\ pos = marks[3]

(***************************************************************************)
(* What the replayer hands to the live destroy operations.                 *)
(***************************************************************************)
\* the live call is a create, a destroy, of category cat
IsCreate(c) == \E cat \in Categories : c.op = CreateOp[cat]
IsDestroy(c) == \E cat \in Categories : c.op = DestroyKind[cat]
\* every live create so far succeeded
AllCreatesSucceed == \A i \in 1..Len(calls) : IsCreate(calls[i]) => Succeeded(calls[i])
\* live call i destroys an object that an earlier create of the replayer
\* returned and that no earlier call destroyed
DestroysOwnOnce(i) ==
  /\ \E j \in 1..(i - 1) :
       /\ IsCreate(calls[j]) /\ Succeeded(calls[j])
       /\ Created(calls[j]) = calls[i].args[1]
  /\ \A j \in 1..(i - 1) : IsDestroy(calls[j]) => calls[j].args[1] # calls[i].args[1]

\* C36: while the live creates succeed, every live destroy call is given an
\* object that a live create of the replayer returned, and no object is given
\* to a destroy twice; a back buffer registered by init_swapchain is never
\* destroyed.
C36_DestroysOwnObjectsOnce ==
  AllCreatesSucceed =>
    \A i \in 1..Len(calls) : IsDestroy(calls[i]) => DestroysOwnOnce(i)

\* C37: an init event makes its live destroy of the stale object only when
\* the origin handle stands for a live object at that moment; an origin
\* handle whose object was destroyed by an earlier event, or whose entry only
\* a lookup of an earlier event made, is created with no live destroy call.
C37_StaleDestroyOnlyForLive ==
  [][ Applied =>
        \A cat \in Categories :
          Last(hist').k = InitKind[cat] =>
            \A j \in 1..Len(NewCalls) :
              NewCalls[j].op = DestroyKind[cat] =>
                Mapping(Reg(cat), Last(hist').d.h) # Null ]_vars

(***************************************************************************)
(* The size of a buffer map.                                               *)
(***************************************************************************)
\* the size field of a recorded map_buffer_region event: it follows the tag,
\* the resource and the offset
MapSizeWritten(o) == Val(SubSeq(o.bytes, 4 + 8 + 8 + 1, 4 + 8 + 8 + 8))
\* the bytes of data a recorded unmap_buffer_region event holds after the
\* tag, the resource, the offset, the size and the access
UnmapDataWritten(o) == Len(o.bytes) - (4 + 8 + 8 + 8 + 4)

\* C38: the size a map_buffer_region callback writes and stores, also when
\* its size argument is UINT64_MAX, ends inside the buffer: offset + size <=
\* buffer size, and an unmap writes no more bytes than the buffer holds from
\* the offset.
C38_MapInsideBuffer ==
  /\ [](/\ \A i \in DOMAIN order :
             order[i].e.k = "map_buffer_region" =>
               order[i].e.offset + MapSizeWritten(order[i]) <= order[i].e.desc.size
        /\ \A i \in DOMAIN mappings :
             mappings[i].offset + mappings[i].size <= BufferDesc.size)
  /\ [][ (Len(order') = Len(order) + 1 /\ Last(order').e.k = "unmap_buffer_region") =>
           LET m == mappings[BufferMapping(mappings, Last(order').e)]
           IN  m.offset + UnmapDataWritten(Last(order')) <= BufferDesc.size ]_vars
====
